---------------------------- MODULE Spec2Model ----------------------------
(***************************************************************************)
(* Persona routing and lifecycle subsystem of pocket-agent.                *)
(*                                                                         *)
(*   PersonaManagerClass  src/src/personas/index.ts                        *)
(*   PersonaRouter        src/unnamed/part_001, lines 1-260                *)
(*   template catalog     src/unnamed/part_001, lines 262-735              *)
(*   onboarding generator src/unnamed/part_001, lines 737-899              *)
(*                                                                         *)
(* A string the program inspects character by character (a message, a      *)
(* slug, a keyword) is a sequence of one-character strings.  Values the    *)
(* store keeps (slugs, keywords, ids) are kept as strings and converted    *)
(* with Chars where the code reads their characters.  Keyword weights are  *)
(* counted in hundredths (WEIGHT_ONE is 1.0), so every comparison the      *)
(* router makes on scores is exact integer arithmetic.                     *)
(***************************************************************************)
EXTENDS Integers, Sequences, FiniteSets, TLC

VARIABLES
    initialized,   \* PersonaManagerClass.memory is bound (index.ts:17,40)
    personas,      \* the store's personas table: id -> row or Null
    keywords,      \* the store's routing_keywords table: a set of rows
    cache,         \* PersonaManagerClass.cache (index.ts:18)
    keywordCache,  \* PersonaRouter.keywordCache (part_001:74)
    last,          \* the last operation with its arguments and its result
    seeded,        \* seedDefaults has populated the store (history)
    deleted,       \* ids delete() removed and create() has not brought back
                   \* (history)
    heap,          \* the template objects and keyword arrays in memory
    held           \* the arrays getDefaultTemplates has returned to a caller

vars ==
    <<initialized, personas, keywords, cache, keywordCache, last, seeded,
      deleted, heap, held>>

-----------------------------------------------------------------------------
(* Bounds of the model *)

\* Longest message that is enumerated character by character.
MaxMsgLen == 4

\* How many keywords of each template, from the head of its list, seeding
\* registers.
MaxSeedKeywords == 3

\* The longest name of which every spelling is given to generateId.
MaxNameLen == 4

\* The longest list of gaps given to generatePersonas.
MaxGaps == 4

\* The number of times a caller asks for the templates.
MaxCalls == 2

-----------------------------------------------------------------------------
(* Characters and strings *)

LowerLetters ==
    <<"a", "b", "c", "d", "e", "f", "g", "h", "i", "j", "k", "l", "m",
      "n", "o", "p", "q", "r", "s", "t", "u", "v", "w", "x", "y", "z">>

UpperLetters ==
    <<"A", "B", "C", "D", "E", "F", "G", "H", "I", "J", "K", "L", "M",
      "N", "O", "P", "Q", "R", "S", "T", "U", "V", "W", "X", "Y", "Z">>

Digits == {"0", "1", "2", "3", "4", "5", "6", "7", "8", "9"}

Range(s) == {s[i] : i \in DOMAIN s}

LowerSet == Range(LowerLetters)

UpperSet == Range(UpperLetters)

\* String.prototype.toLowerCase on one character.
LowerChar(c) ==
    IF c \in UpperSet
    THEN LowerLetters[CHOOSE i \in DOMAIN UpperLetters : UpperLetters[i] = c]
    ELSE c

\* String.prototype.toLowerCase.
ToLowerCase(s) == [i \in 1..Len(s) |-> LowerChar(s[i])]

\* The regular expression class \s (the characters of it the model types).
IsSpace(c) == c \in {" ", "\t", "\n"}

\* The regular expression class \w, [A-Za-z0-9_].
IsWordChar(c) == c \in LowerSet \/ c \in UpperSet \/ c \in Digits \/ c = "_"

\* The class [a-z0-9] whose complement splits a message into tokens.
IsTokenChar(c) == c \in LowerSet \/ c \in Digits

\* String.prototype.trim.
Trim(s) ==
    LET keep == {i \in 1..Len(s) : ~IsSpace(s[i])}
    IN  IF keep = {} THEN <<>>
        ELSE LET lo == CHOOSE i \in keep : \A j \in keep : i <= j
                 hi == CHOOSE i \in keep : \A j \in keep : j <= i
             IN  SubSeq(s, lo, hi)

\* The characters of every string the store holds in this model.
CharTable ==
    "Ops Lead" :> <<"O", "p", "s", " ", "L", "e", "a", "d">> @@
    "ops lead" :> <<"o", "p", "s", " ", "l", "e", "a", "d">> @@
    "ops-lead" :> <<"o", "p", "s", "-", "l", "e", "a", "d">> @@
    "a-b" :> <<"a", "-", "b">> @@
    "@a-b aaa" :> <<"@", "a", "-", "b", " ", "a", "a", "a">> @@
    "@a    " :> <<"@", "a", " ", " ", " ", " ">> @@
    "@A aaa" :> <<"@", "A", " ", "a", "a", "a">> @@
    "aaa bbb" :> <<"a", "a", "a", " ", "b", "b", "b">> @@
    "bbb @a" :> <<"b", "b", "b", " ", "@", "a">> @@
    "@b aaa" :> <<"@", "b", " ", "a", "a", "a">> @@
    "@a bbb" :> <<"@", "a", " ", "b", "b", "b">> @@
    "finance strategy" :> <<"f", "i", "n", "a", "n", "c", "e", " ", "s", "t", "r", "a", "t", "e", "g", "y">> @@
    "a" :> <<"a">> @@
    "b" :> <<"b">> @@
    "A" :> <<"A">> @@
    "ab" :> <<"a", "b">> @@
    "aaa" :> <<"a", "a", "a">> @@
    "bbb" :> <<"b", "b", "b">> @@
    "Aaa" :> <<"A", "a", "a">> @@
    "ops" :> <<"o", "p", "s">> @@
    "Ops" :> <<"O", "p", "s">> @@
    "@finance hello" :> <<"@", "f", "i", "n", "a", "n", "c", "e", " ", "h", "e", "l", "l", "o">> @@
    "hello" :> <<"h", "e", "l", "l", "o">> @@
    "" :> <<>> @@
    "burn rate" :> <<"b", "u", "r", "n", " ", "r", "a", "t", "e">> @@
    "aaa b bbb" :> <<"a", "a", "a", " ", "b", " ", "b", "b", "b">> @@
    "@a @b" :> <<"@", "a", " ", "@", "b">> @@
    "aaa@b" :> <<"a", "a", "a", "@", "b">> @@
    "aaa aaa bbb" :>
        <<"a", "a", "a", " ", "a", "a", "a", " ", "b", "b", "b">> @@
    "what's our burn rate this month" :>
        <<"w", "h", "a", "t", "'", "s", " ", "o", "u", "r", " ", "b", "u",
          "r", "n", " ", "r", "a", "t", "e", " ", "t", "h", "i", "s", " ",
          "m", "o", "n", "t", "h">> @@
    "revenue" :> <<"r", "e", "v", "e", "n", "u", "e">> @@
    "cos" :> <<"c", "o", "s">> @@
    "strategy" :> <<"s", "t", "r", "a", "t", "e", "g", "y">> @@
    "prioritize" :> <<"p", "r", "i", "o", "r", "i", "t", "i", "z", "e">> @@
    "coordinate" :> <<"c", "o", "o", "r", "d", "i", "n", "a", "t", "e">> @@
    "agenda" :> <<"a", "g", "e", "n", "d", "a">> @@
    "meeting" :> <<"m", "e", "e", "t", "i", "n", "g">> @@
    "brief" :> <<"b", "r", "i", "e", "f">> @@
    "update" :> <<"u", "p", "d", "a", "t", "e">> @@
    "status" :> <<"s", "t", "a", "t", "u", "s">> @@
    "decision" :> <<"d", "e", "c", "i", "s", "i", "o", "n">> @@
    "plan" :> <<"p", "l", "a", "n">> @@
    "roadmap" :> <<"r", "o", "a", "d", "m", "a", "p">> @@
    "delegate" :> <<"d", "e", "l", "e", "g", "a", "t", "e">> @@
    "hire" :> <<"h", "i", "r", "e">> @@
    "team" :> <<"t", "e", "a", "m">> @@
    "org" :> <<"o", "r", "g">> @@
    "process" :> <<"p", "r", "o", "c", "e", "s", "s">> @@
    "todo" :> <<"t", "o", "d", "o">> @@
    "schedule" :> <<"s", "c", "h", "e", "d", "u", "l", "e">> @@
    "deadline" :> <<"d", "e", "a", "d", "l", "i", "n", "e">> @@
    "focus" :> <<"f", "o", "c", "u", "s">> @@
    "growth" :> <<"g", "r", "o", "w", "t", "h">> @@
    "marketing" :> <<"m", "a", "r", "k", "e", "t", "i", "n", "g">> @@
    "acquisition" :> <<"a", "c", "q", "u", "i", "s", "i", "t", "i", "o", "n">> @@
    "retention" :> <<"r", "e", "t", "e", "n", "t", "i", "o", "n">> @@
    "funnel" :> <<"f", "u", "n", "n", "e", "l">> @@
    "conversion" :> <<"c", "o", "n", "v", "e", "r", "s", "i", "o", "n">> @@
    "SEO" :> <<"S", "E", "O">> @@
    "ads" :> <<"a", "d", "s">> @@
    "campaign" :> <<"c", "a", "m", "p", "a", "i", "g", "n">> @@
    "landing page" :> <<"l", "a", "n", "d", "i", "n", "g", " ", "p", "a", "g", "e">> @@
    "churn" :> <<"c", "h", "u", "r", "n">> @@
    "viral" :> <<"v", "i", "r", "a", "l">> @@
    "referral" :> <<"r", "e", "f", "e", "r", "r", "a", "l">> @@
    "content" :> <<"c", "o", "n", "t", "e", "n", "t">> @@
    "social media" :> <<"s", "o", "c", "i", "a", "l", " ", "m", "e", "d", "i", "a">> @@
    "CAC" :> <<"C", "A", "C">> @@
    "LTV" :> <<"L", "T", "V">> @@
    "organic" :> <<"o", "r", "g", "a", "n", "i", "c">> @@
    "paid" :> <<"p", "a", "i", "d">> @@
    "traffic" :> <<"t", "r", "a", "f", "f", "i", "c">> @@
    "engagement" :> <<"e", "n", "g", "a", "g", "e", "m", "e", "n", "t">> @@
    "newsletter" :> <<"n", "e", "w", "s", "l", "e", "t", "t", "e", "r">> @@
    "email marketing" :> <<"e", "m", "a", "i", "l", " ", "m", "a", "r", "k", "e", "t", "i", "n", "g">> @@
    "A/B test" :> <<"A", "/", "B", " ", "t", "e", "s", "t">> @@
    "finance" :> <<"f", "i", "n", "a", "n", "c", "e">> @@
    "budget" :> <<"b", "u", "d", "g", "e", "t">> @@
    "runway" :> <<"r", "u", "n", "w", "a", "y">> @@
    "fundraise" :> <<"f", "u", "n", "d", "r", "a", "i", "s", "e">> @@
    "investor" :> <<"i", "n", "v", "e", "s", "t", "o", "r">> @@
    "valuation" :> <<"v", "a", "l", "u", "a", "t", "i", "o", "n">> @@
    "cap table" :> <<"c", "a", "p", " ", "t", "a", "b", "l", "e">> @@
    "projections" :> <<"p", "r", "o", "j", "e", "c", "t", "i", "o", "n", "s">> @@
    "P&L" :> <<"P", "&", "L">> @@
    "cash flow" :> <<"c", "a", "s", "h", " ", "f", "l", "o", "w">> @@
    "unit economics" :> <<"u", "n", "i", "t", " ", "e", "c", "o", "n", "o", "m", "i", "c", "s">> @@
    "term sheet" :> <<"t", "e", "r", "m", " ", "s", "h", "e", "e", "t">> @@
    "equity" :> <<"e", "q", "u", "i", "t", "y">> @@
    "dilution" :> <<"d", "i", "l", "u", "t", "i", "o", "n">> @@
    "SAFE" :> <<"S", "A", "F", "E">> @@
    "convertible" :> <<"c", "o", "n", "v", "e", "r", "t", "i", "b", "l", "e">> @@
    "invoice" :> <<"i", "n", "v", "o", "i", "c", "e">> @@
    "expense" :> <<"e", "x", "p", "e", "n", "s", "e">> @@
    "tax" :> <<"t", "a", "x">> @@
    "accounting" :> <<"a", "c", "c", "o", "u", "n", "t", "i", "n", "g">> @@
    "payroll" :> <<"p", "a", "y", "r", "o", "l", "l">> @@
    "product" :> <<"p", "r", "o", "d", "u", "c", "t">> @@
    "feature" :> <<"f", "e", "a", "t", "u", "r", "e">> @@
    "spec" :> <<"s", "p", "e", "c">> @@
    "PRD" :> <<"P", "R", "D">> @@
    "user story" :> <<"u", "s", "e", "r", " ", "s", "t", "o", "r", "y">> @@
    "sprint" :> <<"s", "p", "r", "i", "n", "t">> @@
    "backlog" :> <<"b", "a", "c", "k", "l", "o", "g">> @@
    "MVP" :> <<"M", "V", "P">> @@
    "user research" :> <<"u", "s", "e", "r", " ", "r", "e", "s", "e", "a", "r", "c", "h">> @@
    "competitive" :> <<"c", "o", "m", "p", "e", "t", "i", "t", "i", "v", "e">> @@
    "UX" :> <<"U", "X">> @@
    "wireframe" :> <<"w", "i", "r", "e", "f", "r", "a", "m", "e">> @@
    "prototype" :> <<"p", "r", "o", "t", "o", "t", "y", "p", "e">> @@
    "beta" :> <<"b", "e", "t", "a">> @@
    "launch" :> <<"l", "a", "u", "n", "c", "h">> @@
    "feedback" :> <<"f", "e", "e", "d", "b", "a", "c", "k">> @@
    "metrics" :> <<"m", "e", "t", "r", "i", "c", "s">> @@
    "OKR" :> <<"O", "K", "R">> @@
    "requirement" :> <<"r", "e", "q", "u", "i", "r", "e", "m", "e", "n", "t">> @@
    "scope" :> <<"s", "c", "o", "p", "e">> @@
    "sales" :> <<"s", "a", "l", "e", "s">> @@
    "pipeline" :> <<"p", "i", "p", "e", "l", "i", "n", "e">> @@
    "deal" :> <<"d", "e", "a", "l">> @@
    "close" :> <<"c", "l", "o", "s", "e">> @@
    "prospect" :> <<"p", "r", "o", "s", "p", "e", "c", "t">> @@
    "outreach" :> <<"o", "u", "t", "r", "e", "a", "c", "h">> @@
    "cold email" :> <<"c", "o", "l", "d", " ", "e", "m", "a", "i", "l">> @@
    "demo" :> <<"d", "e", "m", "o">> @@
    "pricing" :> <<"p", "r", "i", "c", "i", "n", "g">> @@
    "objection" :> <<"o", "b", "j", "e", "c", "t", "i", "o", "n">> @@
    "negotiation" :> <<"n", "e", "g", "o", "t", "i", "a", "t", "i", "o", "n">> @@
    "CRM" :> <<"C", "R", "M">> @@
    "lead" :> <<"l", "e", "a", "d">> @@
    "qualified" :> <<"q", "u", "a", "l", "i", "f", "i", "e", "d">> @@
    "discovery" :> <<"d", "i", "s", "c", "o", "v", "e", "r", "y">> @@
    "contract" :> <<"c", "o", "n", "t", "r", "a", "c", "t">> @@
    "partnership" :> <<"p", "a", "r", "t", "n", "e", "r", "s", "h", "i", "p">> @@
    "BD" :> <<"B", "D">> @@
    "quota" :> <<"q", "u", "o", "t", "a">> @@
    "commission" :> <<"c", "o", "m", "m", "i", "s", "s", "i", "o", "n">> @@
    "legal" :> <<"l", "e", "g", "a", "l">> @@
    "terms" :> <<"t", "e", "r", "m", "s">> @@
    "privacy" :> <<"p", "r", "i", "v", "a", "c", "y">> @@
    "compliance" :> <<"c", "o", "m", "p", "l", "i", "a", "n", "c", "e">> @@
    "GDPR" :> <<"G", "D", "P", "R">> @@
    "IP" :> <<"I", "P">> @@
    "patent" :> <<"p", "a", "t", "e", "n", "t">> @@
    "trademark" :> <<"t", "r", "a", "d", "e", "m", "a", "r", "k">> @@
    "NDA" :> <<"N", "D", "A">> @@
    "incorporation" :> <<"i", "n", "c", "o", "r", "p", "o", "r", "a", "t", "i", "o", "n">> @@
    "entity" :> <<"e", "n", "t", "i", "t", "y">> @@
    "employment" :> <<"e", "m", "p", "l", "o", "y", "m", "e", "n", "t">> @@
    "offer letter" :> <<"o", "f", "f", "e", "r", " ", "l", "e", "t", "t", "e", "r">> @@
    "equity agreement" :> <<"e", "q", "u", "i", "t", "y", " ", "a", "g", "r", "e", "e", "m", "e", "n", "t">> @@
    "liability" :> <<"l", "i", "a", "b", "i", "l", "i", "t", "y">> @@
    "regulation" :> <<"r", "e", "g", "u", "l", "a", "t", "i", "o", "n">> @@
    "copyright" :> <<"c", "o", "p", "y", "r", "i", "g", "h", "t">> @@
    "license" :> <<"l", "i", "c", "e", "n", "s", "e">> @@
    "creative" :> <<"c", "r", "e", "a", "t", "i", "v", "e">> @@
    "brand" :> <<"b", "r", "a", "n", "d">> @@
    "design" :> <<"d", "e", "s", "i", "g", "n">> @@
    "copy" :> <<"c", "o", "p", "y">> @@
    "messaging" :> <<"m", "e", "s", "s", "a", "g", "i", "n", "g">> @@
    "tone" :> <<"t", "o", "n", "e">> @@
    "voice" :> <<"v", "o", "i", "c", "e">> @@
    "visual" :> <<"v", "i", "s", "u", "a", "l">> @@
    "logo" :> <<"l", "o", "g", "o">> @@
    "color palette" :> <<"c", "o", "l", "o", "r", " ", "p", "a", "l", "e", "t", "t", "e">> @@
    "typography" :> <<"t", "y", "p", "o", "g", "r", "a", "p", "h", "y">> @@
    "storytelling" :> <<"s", "t", "o", "r", "y", "t", "e", "l", "l", "i", "n", "g">> @@
    "presentation" :> <<"p", "r", "e", "s", "e", "n", "t", "a", "t", "i", "o", "n">> @@
    "deck" :> <<"d", "e", "c", "k">> @@
    "social" :> <<"s", "o", "c", "i", "a", "l">> @@
    "aesthetic" :> <<"a", "e", "s", "t", "h", "e", "t", "i", "c">> @@
    "tagline" :> <<"t", "a", "g", "l", "i", "n", "e">> @@
    "headline" :> <<"h", "e", "a", "d", "l", "i", "n", "e">> @@
    "cto" :> <<"c", "t", "o">> @@
    "architecture" :> <<"a", "r", "c", "h", "i", "t", "e", "c", "t", "u", "r", "e">> @@
    "stack" :> <<"s", "t", "a", "c", "k">> @@
    "infrastructure" :> <<"i", "n", "f", "r", "a", "s", "t", "r", "u", "c", "t", "u", "r", "e">> @@
    "API" :> <<"A", "P", "I">> @@
    "database" :> <<"d", "a", "t", "a", "b", "a", "s", "e">> @@
    "deployment" :> <<"d", "e", "p", "l", "o", "y", "m", "e", "n", "t">> @@
    "DevOps" :> <<"D", "e", "v", "O", "p", "s">> @@
    "CI/CD" :> <<"C", "I", "/", "C", "D">> @@
    "security" :> <<"s", "e", "c", "u", "r", "i", "t", "y">> @@
    "scalability" :> <<"s", "c", "a", "l", "a", "b", "i", "l", "i", "t", "y">> @@
    "microservices" :> <<"m", "i", "c", "r", "o", "s", "e", "r", "v", "i", "c", "e", "s">> @@
    "monolith" :> <<"m", "o", "n", "o", "l", "i", "t", "h">> @@
    "cloud" :> <<"c", "l", "o", "u", "d">> @@
    "AWS" :> <<"A", "W", "S">> @@
    "technical debt" :> <<"t", "e", "c", "h", "n", "i", "c", "a", "l", " ", "d", "e", "b", "t">> @@
    "code review" :> <<"c", "o", "d", "e", " ", "r", "e", "v", "i", "e", "w">> @@
    "engineering" :> <<"e", "n", "g", "i", "n", "e", "e", "r", "i", "n", "g">> @@
    "backend" :> <<"b", "a", "c", "k", "e", "n", "d">> @@
    "frontend" :> <<"f", "r", "o", "n", "t", "e", "n", "d">> @@
    "mobile" :> <<"m", "o", "b", "i", "l", "e">> @@
    "performance" :> <<"p", "e", "r", "f", "o", "r", "m", "a", "n", "c", "e">> @@
    "testing" :> <<"t", "e", "s", "t", "i", "n", "g">> @@
    "seo" :> <<"s", "e", "o">> @@
    "cac" :> <<"c", "a", "c">> @@
    "ltv" :> <<"l", "t", "v">> @@
    "a/b test" :> <<"a", "/", "b", " ", "t", "e", "s", "t">> @@
    "p&l" :> <<"p", "&", "l">> @@
    "safe" :> <<"s", "a", "f", "e">> @@
    "prd" :> <<"p", "r", "d">> @@
    "mvp" :> <<"m", "v", "p">> @@
    "ux" :> <<"u", "x">> @@
    "okr" :> <<"o", "k", "r">> @@
    "crm" :> <<"c", "r", "m">> @@
    "bd" :> <<"b", "d">> @@
    "gdpr" :> <<"g", "d", "p", "r">> @@
    "ip" :> <<"i", "p">> @@
    "nda" :> <<"n", "d", "a">> @@
    "api" :> <<"a", "p", "i">> @@
    "devops" :> <<"d", "e", "v", "o", "p", "s">> @@
    "ci/cd" :> <<"c", "i", "/", "c", "d">> @@
    "aws" :> <<"a", "w", "s">>

\* The characters of a string.
Chars(s) == CharTable[s]

\* The string of a sequence of characters.
Str(seq) == CHOOSE s \in DOMAIN CharTable : CharTable[s] = seq

\* String.prototype.toLowerCase on a string the store holds.
LowerTable == [s \in DOMAIN CharTable |-> Str(ToLowerCase(CharTable[s]))]

\* The absent value: null, undefined.
Null == [null |-> TRUE]

Min(S) == CHOOSE x \in S : \A y \in S : x <= y

Max(S) == CHOOSE x \in S : \A y \in S : y <= x

\* Array.prototype.find, given the positions that pass the test: the first
\* element that passes, or nothing.
Find(seq, hits) == IF hits = {} THEN Null ELSE seq[Min(hits)]

-----------------------------------------------------------------------------
(* The template catalog *)

CHIEF_OF_STAFF ==
    [id |-> "chief-of-staff", slug |-> "cos", is_default |-> TRUE,
     identity |-> <<"You are the Chief of Staff">>,
     system_prompt_prefix |-> <<"## Active Persona: Chief of Staff">>,
     keywords |-> <<"strategy", "prioritize", "coordinate", "agenda",
                   "meeting", "brief", "update", "status",
                   "decision", "plan", "roadmap", "delegate",
                   "hire", "team", "org", "process",
                   "todo", "schedule", "deadline", "focus">>]

GROWTH_ADVISOR ==
    [id |-> "growth-advisor", slug |-> "growth", is_default |-> FALSE,
     identity |-> <<"You are the Growth Advisor">>,
     system_prompt_prefix |-> <<"## Active Persona: Growth Advisor">>,
     keywords |-> <<"growth", "marketing", "acquisition", "retention",
                   "funnel", "conversion", "SEO", "ads",
                   "campaign", "landing page", "churn", "viral",
                   "referral", "content", "social media", "CAC",
                   "LTV", "organic", "paid", "traffic",
                   "engagement", "newsletter", "email marketing", "A/B test">>]

FINANCE_OPS ==
    [id |-> "finance-ops", slug |-> "finance", is_default |-> FALSE,
     identity |-> <<"You are the Finance & Operations advisor">>,
     system_prompt_prefix |-> <<"## Active Persona: Finance & Ops Advisor">>,
     keywords |-> <<"finance", "budget", "burn rate", "runway",
                   "fundraise", "investor", "valuation", "cap table",
                   "revenue", "projections", "P&L", "cash flow",
                   "unit economics", "term sheet", "equity", "dilution",
                   "SAFE", "convertible", "invoice", "expense",
                   "tax", "accounting", "payroll">>]

PRODUCT_MANAGER ==
    [id |-> "product-manager", slug |-> "product", is_default |-> FALSE,
     identity |-> <<"You are the Product Manager advisor">>,
     system_prompt_prefix |-> <<"## Active Persona: Product Manager">>,
     keywords |-> <<"product", "feature", "spec", "PRD",
                   "user story", "sprint", "roadmap", "backlog",
                   "MVP", "user research", "competitive", "prioritize",
                   "UX", "wireframe", "prototype", "beta",
                   "launch", "feedback", "metrics", "OKR",
                   "requirement", "scope">>]

SALES_ADVISOR ==
    [id |-> "sales-advisor", slug |-> "sales", is_default |-> FALSE,
     identity |-> <<"You are the Sales Advisor">>,
     system_prompt_prefix |-> <<"## Active Persona: Sales Advisor">>,
     keywords |-> <<"sales", "pipeline", "deal", "close",
                   "prospect", "outreach", "cold email", "demo",
                   "pricing", "objection", "negotiation", "CRM",
                   "lead", "qualified", "discovery", "contract",
                   "partnership", "BD", "revenue", "quota",
                   "commission">>]

LEGAL_ADVISOR ==
    [id |-> "legal-advisor", slug |-> "legal", is_default |-> FALSE,
     identity |-> <<"You are the Legal Advisor">>,
     system_prompt_prefix |-> <<"## Active Persona: Legal Advisor">>,
     keywords |-> <<"legal", "contract", "terms", "privacy",
                   "compliance", "GDPR", "IP", "patent",
                   "trademark", "NDA", "incorporation", "entity",
                   "employment", "offer letter", "equity agreement", "liability",
                   "regulation", "copyright", "license">>]

CREATIVE_DIRECTOR ==
    [id |-> "creative-director", slug |-> "creative", is_default |-> FALSE,
     identity |-> <<"You are the Creative Director">>,
     system_prompt_prefix |-> <<"## Active Persona: Creative Director">>,
     keywords |-> <<"brand", "design", "creative", "copy",
                   "messaging", "tone", "voice", "visual",
                   "logo", "color palette", "typography", "content",
                   "storytelling", "campaign", "presentation", "deck",
                   "social", "aesthetic", "tagline", "headline">>]

CTO_TECH ==
    [id |-> "cto-tech", slug |-> "cto", is_default |-> FALSE,
     identity |-> <<"You are the CTO / Tech Advisor">>,
     system_prompt_prefix |-> <<"## Active Persona: CTO / Tech Advisor">>,
     keywords |-> <<"architecture", "stack", "infrastructure", "API",
                   "database", "deployment", "DevOps", "CI/CD",
                   "security", "scalability", "microservices", "monolith",
                   "cloud", "AWS", "technical debt", "code review",
                   "engineering", "backend", "frontend", "mobile",
                   "performance", "testing">>]

\* All 8 default persona templates in sort_order.
PERSONA_TEMPLATES ==
    <<CHIEF_OF_STAFF, GROWTH_ADVISOR, FINANCE_OPS, PRODUCT_MANAGER,
      SALES_ADVISOR, LEGAL_ADVISOR, CREATIVE_DIRECTOR, CTO_TECH>>

\* The template constants as objects in memory: template i at address i of
\* heap.templates, its keywords field the address of its array in heap.lists.
CatalogRefs == [i \in 1..Len(PERSONA_TEMPLATES) |-> i]

CatalogHeap ==
    [templates |-> [i \in 1..Len(PERSONA_TEMPLATES) |->
                       [PERSONA_TEMPLATES[i] EXCEPT !.keywords = i]],
     lists |-> [i \in 1..Len(PERSONA_TEMPLATES) |->
                   PERSONA_TEMPLATES[i].keywords]]

\* The template a reader sees through a reference.
ValueOf(h, ref) == [h.templates[ref] EXCEPT !.keywords = h.lists[@]]

\* getDefaultTemplates with ({ ...t }) only: the keywords array is shared.
getDefaultTemplates_SharedKeywords(h) ==
    LET n == Len(h.templates)
    IN  [heap |-> [h EXCEPT !.templates =
                      @ \o [i \in DOMAIN CatalogRefs |-> @[CatalogRefs[i]]]],
         refs |-> [i \in DOMAIN CatalogRefs |-> n + i]]

\* getDefaultTemplates(): a new object per template ({ ...t }) with a new
\* keywords array ([...t.keywords]); the heap after the call and the array
\* of references returned.
getDefaultTemplates(h) ==
    LET n == Len(h.templates)
        m == Len(h.lists)
    IN  [heap |->
            [templates |->
                h.templates \o [i \in DOMAIN CatalogRefs |->
                    [h.templates[CatalogRefs[i]] EXCEPT !.keywords = m + i]],
             lists |->
                h.lists \o [i \in DOMAIN CatalogRefs |->
                    h.lists[h.templates[CatalogRefs[i]].keywords]]],
         refs |-> [i \in DOMAIN CatalogRefs |-> n + i]]

\* The values of a fresh set of copies.
CopiedTemplates(h) ==
    LET copies == getDefaultTemplates(h)
    IN  [i \in DOMAIN copies.refs |-> ValueOf(copies.heap, copies.refs[i])]

\* Stage-specific context appended to every persona's identity text.
STAGE_CONTEXT ==
    ("idea" :> "The startup is at the idea stage.")
        @@ ("pre-seed" :> "The startup is pre-seed.")
        @@ ("seed" :> "The startup is seed-stage with early traction.")
        @@ ("series-a" :> "The startup is Series A.")
        @@ ("growth" :> "The startup is in growth stage.")
        @@ ("scale" :> "The startup is at scale.")

\* Founder role context appended to the Chief of Staff persona.
ROLE_CONTEXT ==
    [technical |-> "The founder is technical.",
     business |-> "The founder is business-focused.",
     product |-> "The founder is product-focused.",
     generalist |-> "The founder is a generalist."]

\* A text is the sequence of its blocks; customizeForStage appends the
\* "Startup Context" heading and the guidance of the stage.
customizeForStage(text, stage) ==
    IF stage \notin DOMAIN STAGE_CONTEXT THEN text
    ELSE text \o <<"## Startup Context", STAGE_CONTEXT[stage]>>

\* Appends the "Founder Context" heading and the guidance of the role.
customizeForFounderRole(text, role) ==
    IF role \notin DOMAIN ROLE_CONTEXT THEN text
    ELSE text \o <<"## Founder Context", ROLE_CONTEXT[role]>>

\* Maps gap selection identifiers to persona template ids.
GAP_TO_PERSONA ==
    [strategy |-> "chief-of-staff", growth |-> "growth-advisor",
     finance |-> "finance-ops", product |-> "product-manager",
     sales |-> "sales-advisor", legal |-> "legal-advisor",
     creative |-> "creative-director", tech |-> "cto-tech"]

\* The templates a caller reads from the array a call returns.
TemplatesOf(call) ==
    [i \in DOMAIN call.refs |-> ValueOf(call.heap, call.refs[i])]

\* The heap once the objects a call allocated are out of reach: the template
\* constants remain.
Collect(h) ==
    [templates |-> SubSeq(h.templates, 1, Len(CatalogRefs)),
     lists |-> SubSeq(h.lists, 1, Len(CatalogRefs))]

RECURSIVE AddGaps(_, _, _, _)
\* The loop over answers.gaps: a known gap whose template is not yet selected
\* is appended.  result and all hold references into the heap h.
AddGaps(h, result, gaps, all) ==
    IF gaps = <<>> THEN result
    ELSE LET gap == Head(gaps)
             personaId == IF gap \in DOMAIN GAP_TO_PERSONA
                          THEN GAP_TO_PERSONA[gap] ELSE ""
             found == {i \in DOMAIN all : h.templates[all[i]].id = personaId}
             skip == \/ personaId = ""
                     \/ personaId = "chief-of-staff"
                     \/ found = {}
                     \/ \E i \in DOMAIN result :
                            h.templates[result[i]].id = personaId
         IN  AddGaps(h,
                     IF skip THEN result ELSE Append(result, all[Min(found)]),
                     Tail(gaps), all)

RECURSIVE EnrichForStage(_, _, _)
\* The loop that enriches every selected persona with the stage context: the
\* heap after the assignments to the objects result refers to.
EnrichForStage(h, result, stage) ==
    IF result = <<>> THEN h
    ELSE EnrichForStage(
             [h EXCEPT !.templates[Head(result)] =
                 [@ EXCEPT
                     !.identity = customizeForStage(@, stage),
                     !.system_prompt_prefix = customizeForStage(@, stage)]],
             Tail(result), stage)

\* const cosTemplate = allTemplates.find((t) => t.id === 'chief-of-staff')
FindCoordinator(h, all) ==
    {i \in DOMAIN all : h.templates[all[i]].id = "chief-of-staff"}

\* generatePersonas without the founder-role context.
generatePersonas_NoFounderRole(h, answers) ==
    LET copies == getDefaultTemplates(h)
        allTemplates == copies.refs
        cos == FindCoordinator(copies.heap, allTemplates)
    IN  IF cos = {}
        THEN [heap |-> copies.heap, refs |-> <<>>,
              error |-> "Chief of Staff template not found"]
        ELSE LET result == AddGaps(copies.heap, <<allTemplates[Min(cos)]>>,
                                   answers.gaps, allTemplates)
             IN  [heap |-> EnrichForStage(copies.heap, result,
                                          answers.startup_stage),
                  refs |-> result]

\* generatePersonas that starts from an empty result.
generatePersonas_NoCoordinator(h, answers) ==
    LET copies == getDefaultTemplates(h)
        allTemplates == copies.refs
        cos == FindCoordinator(copies.heap, allTemplates)
    IN  IF cos = {}
        THEN [heap |-> copies.heap, refs |-> <<>>,
              error |-> "Chief of Staff template not found"]
        ELSE LET cosTemplate == allTemplates[Min(cos)]
                 result == AddGaps(copies.heap, <<>>, answers.gaps,
                                   allTemplates)
                 staged == EnrichForStage(copies.heap, result,
                                          answers.startup_stage)
             IN  [heap |-> [staged EXCEPT !.templates[cosTemplate].identity =
                               customizeForFounderRole(@, answers.founder_role)],
                  refs |-> result]

\* generatePersonas that selects from the template constants themselves.
generatePersonas_OnCatalog(h, answers) ==
    LET allTemplates == CatalogRefs
        cos == FindCoordinator(h, allTemplates)
    IN  IF cos = {}
        THEN [heap |-> h, refs |-> <<>>,
              error |-> "Chief of Staff template not found"]
        ELSE LET cosTemplate == allTemplates[Min(cos)]
                 result == AddGaps(h, <<cosTemplate>>, answers.gaps,
                                   allTemplates)
                 staged == EnrichForStage(h, result, answers.startup_stage)
             IN  [heap |-> [staged EXCEPT !.templates[cosTemplate].identity =
                               customizeForFounderRole(@, answers.founder_role)],
                  refs |-> result]

\* generatePersonas(answers) on the heap h: the selection from fresh copies,
\* the stage context assigned to every selected object, the founder-role
\* context assigned to cosTemplate; the heap after the call and the array of
\* references returned.
generatePersonas(h, answers) ==
    LET copies == getDefaultTemplates(h)
        allTemplates == copies.refs
        cos == FindCoordinator(copies.heap, allTemplates)
    IN  IF cos = {}
        THEN [heap |-> copies.heap, refs |-> <<>>,
              error |-> "Chief of Staff template not found"]
        ELSE LET cosTemplate == allTemplates[Min(cos)]
                 result == AddGaps(copies.heap, <<cosTemplate>>, answers.gaps,
                                   allTemplates)
                 staged == EnrichForStage(copies.heap, result,
                                          answers.startup_stage)
             IN  [heap |-> [staged EXCEPT !.templates[cosTemplate].identity =
                               customizeForFounderRole(@, answers.founder_role)],
                  refs |-> result]

-----------------------------------------------------------------------------
(* The store: MemoryManager's persona methods *)

\* An id a caller gives a persona of its own.
CustomId == "ops-lead"

\* The order in which the store returns rows.
TableOrder ==
    [i \in 1..Len(PERSONA_TEMPLATES) |-> PERSONA_TEMPLATES[i].id]
        \o <<CustomId>>

PersonaIds == Range(TableOrder)

EmptyTable == [id \in PersonaIds |-> Null]

StoreRows(P) ==
    SelectSeq([i \in 1..Len(TableOrder) |-> P[TableOrder[i]]],
              LAMBDA r : r # Null)

\* getPersonas(activeOnly)
StoreGetPersonas(P, activeOnly) ==
    IF activeOnly THEN SelectSeq(StoreRows(P), LAMBDA r : r.is_active)
    ELSE StoreRows(P)

\* getPersonaById(id)
StoreGetPersonaById(P, id) == IF id \in PersonaIds THEN P[id] ELSE Null

\* getPersonaBySlug(slug): the row whose slug is exactly slug.
StoreGetPersonaBySlug(P, slug) ==
    LET rows == StoreRows(P)
    IN  Find(rows, {i \in DOMAIN rows : Chars(rows[i].slug) = slug})

\* getDefaultPersona(): inactive personas are excluded from default-lookup.
StoreGetDefaultPersona(P) ==
    LET rows == StoreRows(P)
    IN  Find(rows, {i \in DOMAIN rows : rows[i].is_default /\ rows[i].is_active})

\* The slug of a row is unique: savePersona raises when another row holds it.
StoreSlugTaken(P, row) ==
    \E id \in PersonaIds : id # row.id /\ P[id] # Null /\ P[id].slug = row.slug

\* savePersona(persona): inserts the row, or replaces the row of that id.
StoreSavePersona(P, row) == [P EXCEPT ![row.id] = row]

\* updatePersona(id, partial): the row with the fields of partial replaced.
StoreUpdatePersona(P, id, partial) ==
    [P EXCEPT ![id] =
        [f \in DOMAIN P[id] |->
            IF f \in DOMAIN partial THEN partial[f] ELSE P[id][f]]]

\* deletePersona(id): removes the row ...
StoreDeletePersona(P, id) == [P EXCEPT ![id] = Null]

\* ... and, by cascade, every routing keyword that references it.
StoreCascadeKeywords(K, id) == {k \in K : k.persona_id # id}

\* setDefaultPersona(id): clears the flag on every other row and sets it on
\* id; an id that matches no row changes nothing.
StoreSetDefaultPersona(P, id) ==
    IF StoreGetPersonaById(P, id) = Null THEN P
    ELSE [x \in PersonaIds |->
             IF P[x] = Null THEN Null
             ELSE [P[x] EXCEPT !.is_default = (x = id)]]

\* setRoutingKeywords(personaId, list): replaces the keywords of the persona.
StoreSetRoutingKeywords(K, personaId, list) ==
    {k \in K : k.persona_id # personaId}
        \cup {[persona_id |-> personaId, keyword |-> list[i].keyword,
               weight |-> list[i].weight] : i \in DOMAIN list}

-----------------------------------------------------------------------------
(* PersonaManagerClass: the read operations *)

ColdCache == [warm |-> FALSE, rows |-> <<>>]

\* invalidateCache(): this.cache = null
ManagerInvalidateCache == ColdCache

\* CacheAfterGetAll that loads the active personas only.
CacheAfterGetAll_ActiveOnly ==
    IF cache.warm THEN cache
    ELSE [warm |-> TRUE, rows |-> StoreGetPersonas(personas, TRUE)]

\* The cache after getAll: filled from the store when it was cold.
CacheAfterGetAll ==
    IF cache.warm THEN cache
    ELSE [warm |-> TRUE, rows |-> StoreGetPersonas(personas, FALSE)]

\* getAll(activeOnly)
ManagerGetAll(activeOnly) ==
    IF activeOnly THEN SelectSeq(CacheAfterGetAll.rows, LAMBDA p : p.is_active)
    ELSE CacheAfterGetAll.rows

\* The rows this.cache?.find searches: none while the cache is null.
CacheRows == IF cache.warm THEN cache.rows ELSE <<>>

\* getById(id)
ManagerGetById(id) ==
    LET cached ==
            Find(CacheRows, {i \in DOMAIN CacheRows : CacheRows[i].id = id})
    IN  IF cached # Null THEN cached ELSE StoreGetPersonaById(personas, id)

\* getBySlug(slug)
ManagerGetBySlug(slug) ==
    LET cached ==
            Find(CacheRows,
                 {i \in DOMAIN CacheRows : Chars(CacheRows[i].slug) = slug})
    IN  IF cached # Null THEN cached ELSE StoreGetPersonaBySlug(personas, slug)

\* getDefault()
ManagerGetDefault ==
    LET cached ==
            Find(CacheRows,
                 {i \in DOMAIN CacheRows :
                     CacheRows[i].is_default /\ CacheRows[i].is_active})
    IN  IF cached # Null THEN cached ELSE StoreGetDefaultPersona(personas)

-----------------------------------------------------------------------------
(* RouterConfig: the accessors the router is constructed with *)

\* getPersonas: all personas, active and inactive.
ConfigGetPersonas == ManagerGetAll(FALSE)

\* getBySlug
ConfigGetBySlug(slug) == ManagerGetBySlug(slug)

\* getDefault
ConfigGetDefault == ManagerGetDefault

\* getAllKeywords: every routing keyword across all personas.
ConfigGetAllKeywords == keywords

-----------------------------------------------------------------------------
(* PersonaRouter *)

\* Weights and scores are counted in hundredths: 100 is the weight 1.0.
WEIGHT_ONE == 100

\* Minimum normalised score to accept an intent match: 0.15, in hundredths.
MIN_THRESHOLD == 15

\* Winner must score at least this multiple of the runner-up: 1.5, in
\* hundredths.
DOMINANCE_RATIO == 150

\* Minimum token length to keep after tokenisation.
MIN_TOKEN_LENGTH == 3

\* The confidence 1.0.
FullConfidence == [num |-> 1, den |-> 1]

NoDefaultError == [error |-> "No default persona configured"]

\* AtTokens without the condition on what precedes the "@".
AtTokens_Anywhere(m) ==
    {a \in 1..Len(m) :
        /\ m[a] = "@"
        /\ a < Len(m)
        /\ IsWordChar(m[a + 1])}

\* The positions of the "@" that /(?:^|\s)@(\w+)/ can match: at the start of
\* the message or after whitespace, and followed by a word character.
AtTokens(m) ==
    {a \in 1..Len(m) :
        /\ m[a] = "@"
        /\ a = 1 \/ IsSpace(m[a - 1])
        /\ a < Len(m)
        /\ IsWordChar(m[a + 1])}

\* MentionMatch that takes the last match for the first.
MentionMatch_Last(m) ==
    IF AtTokens(m) = {} THEN Null
    ELSE LET a == Max(AtTokens(m))
             e == CHOOSE x \in (a + 1)..Len(m) :
                      /\ \A j \in (a + 1)..x : IsWordChar(m[j])
                      /\ x = Len(m) \/ ~IsWordChar(m[x + 1])
         IN  [start |-> IF a = 1 THEN 1 ELSE a - 1,
              end |-> e,
              token |-> SubSeq(m, a + 1, e)]

\* The end of the run of word characters that starts at position i.
WordRunEnd(m, i) ==
    CHOOSE e \in i..Len(m) :
        /\ \A j \in i..e : IsWordChar(m[j])
        /\ e = Len(m) \/ ~IsWordChar(m[e + 1])

\* message.match(mentionRegex): the leftmost match, \w+ taking the longest
\* run.  start..end is the matched text (the whitespace before the "@"
\* included), token is the capture group.
MentionMatch(m) ==
    IF AtTokens(m) = {} THEN Null
    ELSE LET a == Min(AtTokens(m))
             e == WordRunEnd(m, a + 1)
         IN  [start |-> IF a = 1 THEN 1 ELSE a - 1,
              end |-> e,
              token |-> SubSeq(m, a + 1, e)]

\* message.replace(mentionRegex, '').trim()
StripMention(m, match) ==
    Trim(SubSeq(m, 1, match.start - 1) \o SubSeq(m, match.end + 1, Len(m)))

\* detectMention without the test of is_active.
detectMention_IgnoreActive(m) ==
    LET match == MentionMatch(m)
    IN  IF match = Null THEN Null
        ELSE LET persona == ConfigGetBySlug(ToLowerCase(match.token))
                 strippedMessage == StripMention(m, match)
             IN  IF persona = Null THEN Null
                 ELSE [persona |-> persona,
                       method |-> "mention",
                       confidence |-> FullConfidence,
                       strippedMessage |->
                           IF strippedMessage # <<>> THEN strippedMessage
                           ELSE m]

\* detectMention without the fallback to the original message.
detectMention_NoFallback(m) ==
    LET match == MentionMatch(m)
    IN  IF match = Null THEN Null
        ELSE LET persona == ConfigGetBySlug(ToLowerCase(match.token))
             IN  IF persona = Null \/ ~persona.is_active THEN Null
                 ELSE [persona |-> persona,
                       method |-> "mention",
                       confidence |-> FullConfidence,
                       strippedMessage |-> StripMention(m, match)]

\* Stage 1: @mention detection.
detectMention(m) ==
    LET match == MentionMatch(m)
    IN  IF match = Null THEN Null
        ELSE LET slug == ToLowerCase(match.token)
                 persona == ConfigGetBySlug(slug)
                 strippedMessage == StripMention(m, match)
             IN  IF persona = Null \/ ~persona.is_active THEN Null
                 ELSE [persona |-> persona,
                       method |-> "mention",
                       confidence |-> FullConfidence,
                       strippedMessage |->
                           IF strippedMessage # <<>> THEN strippedMessage
                           ELSE m]

\* KeepToken that keeps every non-empty run.
KeepToken_Short(run) == IF Len(run) >= 1 THEN <<run>> ELSE <<>>

\* A closed run of token characters is kept when it is long enough.
KeepToken(run) == IF Len(run) >= MIN_TOKEN_LENGTH THEN <<run>> ELSE <<>>

RECURSIVE SplitTokens(_, _, _)
\* split(/[^a-z0-9]+/).filter((w) => w.length >= MIN_TOKEN_LENGTH), reading s
\* from position i with the run of token characters collected so far.
SplitTokens(s, i, run) ==
    IF i > Len(s) THEN KeepToken(run)
    ELSE IF IsTokenChar(s[i]) THEN SplitTokens(s, i + 1, Append(run, s[i]))
    ELSE KeepToken(run) \o SplitTokens(s, i + 1, <<>>)

\* Tokenise: lowercase, split on non-alphanumeric, drop short tokens.
Tokenize(m) == SplitTokens(ToLowerCase(m), 1, <<>>)

\* Phrases without the bigrams.
Phrases_UnigramsOnly(words) == words

\* Unigrams followed by the bigrams of adjacent tokens.
Phrases(words) ==
    IF Len(words) < 2 THEN words
    ELSE words \o [i \in 1..(Len(words) - 1) |->
                      words[i] \o <<" ">> \o words[i + 1]]

\* The map getKeywordMap builds: every keyword under its lowercased key.
BuildKeywordMap(kws) ==
    {[key |-> LowerTable[kw.keyword],
      persona_id |-> kw.persona_id,
      weight |-> kw.weight,
      keyword |-> kw.keyword] : kw \in kws}

ColdKeywordCache == [built |-> FALSE, entries |-> {}]

\* getKeywordMap that takes an empty cached map for no map.
getKeywordMap_RebuildEmpty ==
    IF keywordCache.built /\ keywordCache.entries # {} THEN keywordCache
    ELSE [built |-> TRUE, entries |-> BuildKeywordMap(ConfigGetAllKeywords)]

\* getKeywordMap(): the cached map, or one built from getAllKeywords().
getKeywordMap ==
    IF keywordCache.built THEN keywordCache
    ELSE [built |-> TRUE, entries |-> BuildKeywordMap(ConfigGetAllKeywords)]

\* keywordMap.get(phrase)
MapGet(map, phrase) == {e \in map.entries : Chars(e.key) = phrase}

RECURSIVE SumWeights(_)
SumWeights(S) ==
    IF S = {} THEN 0
    ELSE LET e == CHOOSE x \in S : TRUE
         IN  e.weight + SumWeights(S \ {e})

RECURSIVE ScoreFrom(_, _, _, _)
\* The score persona id accumulates over phrases[i..]: a phrase adds the
\* weight of each of its matches, each time the phrase occurs.
ScoreFrom(map, phrases, id, i) ==
    IF i > Len(phrases) THEN 0
    ELSE SumWeights({e \in MapGet(map, phrases[i]) : e.persona_id = id})
             + ScoreFrom(map, phrases, id, i + 1)

\* The keys of the scores map: the personas a phrase of the message matched.
Scored(map, phrases) ==
    {e.persona_id :
        e \in {x \in map.entries :
                  \E i \in DOMAIN phrases : phrases[i] = Chars(x.key)}}

\* The ranking of classifyIntent over the tokens of a message.  When several
\* personas share the top score the runner-up score equals it, so the
\* dominance gate rejects the message whichever of them the sort puts first.
Ranking(words, map) ==
    LET phrases == Phrases(words)
        ids == Scored(map, phrases)
        score == [id \in ids |-> ScoreFrom(map, phrases, id, 1)]
        topScore == Max({score[id] : id \in ids})
        topId == CHOOSE id \in ids : score[id] = topScore
    IN  IF ids = {}
        THEN [words |-> Len(words), size |-> 0]
        ELSE [words |-> Len(words),
              size |-> Cardinality(ids),
              topId |-> topId,
              topScore |-> topScore,
              secondScore |->
                  IF Cardinality(ids) > 1
                  THEN Max({score[id] : id \in ids \ {topId}})
                  ELSE 0]

\* BelowThreshold with the boundary rejected: <= for <.
BelowThreshold_Inclusive(r) ==
    r.topScore <= MIN_THRESHOLD * Max({r.words, 1})

\* Gate: minimum confidence.  normalizedScore < MIN_THRESHOLD, with
\* normalizedScore = topScore / Math.max(words.length, 1).
BelowThreshold(r) ==
    r.topScore < MIN_THRESHOLD * Max({r.words, 1})

\* NotDominant with the boundary excluded: <= for <.
NotDominant_Exclusive(r) ==
    r.secondScore > 0 /\ r.topScore * WEIGHT_ONE <= r.secondScore * DOMINANCE_RATIO

\* Gate: dominance.  secondScore > 0 && topScore < secondScore * DOMINANCE_RATIO
NotDominant(r) ==
    r.secondScore > 0 /\ r.topScore * WEIGHT_ONE < r.secondScore * DOMINANCE_RATIO

\* WinnerIsDefault without the gate: the default persona may win.
WinnerIsDefault_Never(r) == FALSE

\* Gate: the winner is the default persona.
WinnerIsDefault(r) ==
    LET defaultPersona == ConfigGetDefault
    IN  defaultPersona # Null /\ r.topId = defaultPersona.id

\* Confidence without the cap at 1.0.
Confidence_Uncapped(r) ==
    [num |-> r.topScore, den |-> WEIGHT_ONE * Max({r.words, 1})]

\* Math.min(normalizedScore, 1.0)
Confidence(r) ==
    LET den == WEIGHT_ONE * Max({r.words, 1})
    IN  [num |-> IF r.topScore < den THEN r.topScore ELSE den, den |-> den]

\* The ranking of a message when classifyIntent gets as far as ranking:
\* the map is not empty, a token survives and a phrase matches.
IntentRanking(m, map) ==
    LET words == Tokenize(m)
    IN  IF map.entries = {} \/ words = <<>> THEN [words |-> Len(words), size |-> 0]
        ELSE Ranking(words, map)

\* Every gate before the call of getPersonas() passes.
GatesPass(r) ==
    /\ r.size > 0
    /\ ~BelowThreshold(r)
    /\ ~NotDominant(r)
    /\ ~WinnerIsDefault(r)

\* classifyIntent that answers with the default persona when the top scorer
\* is not among the personas.
classifyIntent_DefaultOnMiss(m, map) ==
    LET r == IntentRanking(m, map)
    IN  IF ~GatesPass(r) THEN Null
        ELSE LET all == ConfigGetPersonas
                 persona == Find(all, {i \in DOMAIN all : all[i].id = r.topId})
             IN  [persona |-> IF persona = Null THEN ConfigGetDefault ELSE persona,
                  method |-> "intent",
                  confidence |-> Confidence(r)]

\* Stage 2: keyword-based intent classification.
classifyIntent(m, map) ==
    LET r == IntentRanking(m, map)
    IN  IF ~GatesPass(r) THEN Null
        ELSE LET all == ConfigGetPersonas
                 persona == Find(all, {i \in DOMAIN all : all[i].id = r.topId})
             IN  IF persona = Null THEN Null
                 ELSE [persona |-> persona,
                       method |-> "intent",
                       confidence |-> Confidence(r)]

\* The result of stage 3 for a default persona.
DefaultResult(defaultPersona) ==
    [persona |-> defaultPersona, method |-> "default",
     confidence |-> FullConfidence]

\* route with stage 2 asked before stage 1.
route_IntentFirst(m) ==
    LET mentionResult == detectMention(m)
        intentResult == classifyIntent(m, getKeywordMap)
        defaultPersona == ConfigGetDefault
    IN  IF intentResult # Null THEN intentResult
        ELSE IF mentionResult # Null THEN mentionResult
        ELSE IF defaultPersona # Null THEN DefaultResult(defaultPersona)
        ELSE NoDefaultError

\* route with the fallback reported at confidence 0.
route_ZeroConfidence(m) ==
    LET mentionResult == detectMention(m)
        intentResult == classifyIntent(m, getKeywordMap)
        defaultPersona == ConfigGetDefault
    IN  IF mentionResult # Null THEN mentionResult
        ELSE IF intentResult # Null THEN intentResult
        ELSE IF defaultPersona # Null
             THEN [persona |-> defaultPersona, method |-> "default",
                   confidence |-> [num |-> 0, den |-> 1]]
             ELSE NoDefaultError

\* route that answers with the first persona when no default is configured.
route_AnyPersona(m) ==
    LET mentionResult == detectMention(m)
        intentResult == classifyIntent(m, getKeywordMap)
        defaultPersona == ConfigGetDefault
        all == ConfigGetPersonas
    IN  IF mentionResult # Null THEN mentionResult
        ELSE IF intentResult # Null THEN intentResult
        ELSE IF defaultPersona # Null THEN DefaultResult(defaultPersona)
        ELSE IF all # <<>> THEN DefaultResult(all[1])
        ELSE NoDefaultError

\* route(message): mention, then intent, then the default persona.
route(m) ==
    LET mentionResult == detectMention(m)
        intentResult == classifyIntent(m, getKeywordMap)
        defaultPersona == ConfigGetDefault
    IN  IF mentionResult # Null THEN mentionResult
        ELSE IF intentResult # Null THEN intentResult
        ELSE IF defaultPersona # Null THEN DefaultResult(defaultPersona)
        ELSE NoDefaultError

-----------------------------------------------------------------------------
(* PersonaManagerClass: the write operations *)

RECURSIVE ReplaceRuns(_, _)
\* replace(/[^a-z0-9]+/g, '-') on s from position i: a character of a run
\* gives the hyphen when it is the first of its run.
ReplaceRuns(s, i) ==
    IF i > Len(s) THEN <<>>
    ELSE IF IsTokenChar(s[i]) THEN <<s[i]>> \o ReplaceRuns(s, i + 1)
    ELSE IF i > 1 /\ ~IsTokenChar(s[i - 1]) THEN ReplaceRuns(s, i + 1)
    ELSE <<"-">> \o ReplaceRuns(s, i + 1)

\* replace(/(^-|-$)/g, ''): a hyphen at the start and a hyphen at the end.
TrimHyphens(s) ==
    LET a == IF s # <<>> /\ s[1] = "-" THEN 2 ELSE 1
        b == IF Len(s) >= a /\ s[Len(s)] = "-" THEN Len(s) - 1 ELSE Len(s)
    IN  SubSeq(s, a, b)

\* generateId without the second replace.
generateId_NoTrim(name) == ReplaceRuns(ToLowerCase(name), 1)

\* generateId(name)
generateId(name) == TrimHyphens(ReplaceRuns(ToLowerCase(name), 1))

\* const id = input.id || this.generateId(input.name)
CreateId(input) ==
    IF input.id # <<>> THEN input.id ELSE generateId(input.name)

\* The answers generatePersonas is given: every stage, every founder role and
\* every list of up to MaxGaps gap identifiers, known, unknown, repeated or
\* resolving to the coordinator.
GapIds == {"strategy", "finance", "growth", "unknown"}

GenInputs ==
    {[startup_stage |-> s, founder_role |-> r, gaps |-> g] :
        s \in DOMAIN STAGE_CONTEXT, r \in DOMAIN ROLE_CONTEXT,
        g \in UNION {[1..n -> GapIds] : n \in 0..MaxGaps}}

\* The templates of a returned array a caller writes to.
MutatedIndexes == {1, 3}

\* The names and ids given to create's id derivation.
NameAlphabet == {"a", "B", "1", " ", "&", "-"}

ChiefOfStaffName ==
    <<"C", "h", "i", "e", "f", " ", "o", "f", " ", "S", "t", "a", "f", "f">>

RnDLeadName == <<"R", "&", "D", "!", "!", " ", "L", "e", "a", "d">>

Names ==
    UNION {[1..n -> NameAlphabet] : n \in 0..MaxNameLen}
        \cup {ChiefOfStaffName, RnDLeadName}

SuppliedId == <<"-", "M", "y", " ", "I", "d", "-">>

IdInputs == {[id |-> i, name |-> n] : i \in {<<>>, SuppliedId}, n \in Names}

\* The row create() builds from its input (the fields the model keeps).
CreateRow(input) ==
    [id |-> Str(CreateId([id |-> Chars(input.id), name |-> Chars(input.name)])),
     slug |-> input.slug,
     is_default |-> input.is_default, is_active |-> input.is_active]

\* The row seedDefaults() builds from a template.
SeedRow(template) ==
    [id |-> template.id, slug |-> template.slug,
     is_default |-> template.is_default, is_active |-> TRUE]

\* template.keywords.map((k) => ({ keyword: k, weight: 1.0 })), cut to the
\* first MaxSeedKeywords keywords.
SeedKeywords(template) ==
    [i \in 1..Min({Len(template.keywords), MaxSeedKeywords}) |->
        [keyword |-> template.keywords[i], weight |-> WEIGHT_ONE]]

RECURSIVE SeedPersonas(_, _)
\* The personas table after the loop of seedDefaults over templates.
SeedPersonas(P, templates) ==
    IF templates = <<>> THEN P
    ELSE SeedPersonas(StoreSavePersona(P, SeedRow(Head(templates))),
                      Tail(templates))

RECURSIVE SeedRouting(_, _)
\* The keywords table after the loop of seedDefaults over templates.
SeedRouting(K, templates) ==
    IF templates = <<>> THEN K
    ELSE LET template == Head(templates)
         IN  SeedRouting(IF Len(template.keywords) > 0
                         THEN StoreSetRoutingKeywords(K, template.id,
                                                      SeedKeywords(template))
                         ELSE K,
                         Tail(templates))

\* hasPersonas that counts the active personas only.
hasPersonas_ActiveOnly == Len(ManagerGetAll(TRUE)) > 0

\* hasPersonas()
hasPersonas == Len(ManagerGetAll(FALSE)) > 0

-----------------------------------------------------------------------------
(* Inputs *)

\* seedDefaults() without answers.
NoAnswers == [gaps |-> <<"none">>, absent |-> TRUE]

AnswerInputs ==
    {NoAnswers,
     [startup_stage |-> "seed", founder_role |-> "technical",
      gaps |-> <<"finance", "strategy", "unknown", "finance">>]}

\* The ids the write operations are called with.
WriteIds == {"chief-of-staff", "finance-ops"}

UnknownId == "nobody"

CreateInputs ==
    {[id |-> CustomId, name |-> "Ops Lead", slug |-> s, is_default |-> d,
      is_active |-> a] :
        s \in {"ops", "finance"}, d \in BOOLEAN, a \in {TRUE}}
        \cup {[id |-> CustomId, name |-> "Ops Lead", slug |-> "ops",
                is_default |-> FALSE, is_active |-> FALSE],
               [id |-> "", name |-> "Ops Lead", slug |-> "ops",
                is_default |-> FALSE, is_active |-> TRUE]}

UpdateInputs ==
    {[is_active |-> b] : b \in BOOLEAN} \cup {[is_default |-> FALSE]}

SlugInputs == {"finance", "ops"}

\* Messages routed between the operations of the manager.
SampleMessages ==
    {Chars(s) : s \in {"burn rate", "@finance hello", "hello"}}

-----------------------------------------------------------------------------
(* Operations *)

\* initialize(memory)
Initialize ==
    /\ ~initialized
    /\ initialized' = TRUE
    /\ cache' = ManagerInvalidateCache
    /\ last' = [op |-> "initialize"]
    /\ UNCHANGED <<personas, keywords, keywordCache, seeded, deleted,
                   heap, held>>

\* Operations before initialize(memory) that return nothing instead of
\* throwing.
Uninitialized_NoThrow ==
    /\ ~initialized
    /\ \E op \in {"getAll", "getById", "getBySlug", "getDefault", "create",
                  "update", "delete", "setDefault", "seedDefaults"} :
           last' = [op |-> op, result |-> Null]
    /\ UNCHANGED <<initialized, personas, keywords, cache, keywordCache,
                 seeded, deleted, heap, held>>

\* ensureInitialized() throws: any operation before initialize(memory).
Uninitialized ==
    /\ ~initialized
    /\ \E op \in {"getAll", "getById", "getBySlug", "getDefault", "create",
                  "update", "delete", "setDefault", "seedDefaults"} :
           last' = [op |-> op, error |-> "PersonaManager not initialized"]
    /\ UNCHANGED <<initialized, personas, keywords, cache, keywordCache,
                 seeded, deleted, heap, held>>

GetAll ==
    /\ initialized
    /\ \E activeOnly \in BOOLEAN :
           last' = [op |-> "getAll", activeOnly |-> activeOnly,
                    result |-> ManagerGetAll(activeOnly)]
    /\ cache' = CacheAfterGetAll
    /\ UNCHANGED <<initialized, personas, keywords, keywordCache, seeded,
                 deleted, heap, held>>

GetById ==
    /\ initialized
    /\ \E id \in {"finance-ops", CustomId, UnknownId} :
           last' = [op |-> "getById", id |-> id, result |-> ManagerGetById(id)]
    /\ UNCHANGED <<initialized, personas, keywords, cache, keywordCache,
                 seeded, deleted, heap, held>>

GetBySlug ==
    /\ initialized
    /\ \E slug \in SlugInputs :
           last' = [op |-> "getBySlug", slug |-> slug,
                    result |-> ManagerGetBySlug(Chars(slug))]
    /\ UNCHANGED <<initialized, personas, keywords, cache, keywordCache,
                 seeded, deleted, heap, held>>

GetDefault ==
    /\ initialized
    /\ last' = [op |-> "getDefault", result |-> ManagerGetDefault]
    /\ UNCHANGED <<initialized, personas, keywords, cache, keywordCache,
                 seeded, deleted, heap, held>>

\* create(input): savePersona, invalidateCache, then the row read back.  A
\* savePersona that raises leaves the manager as it was.
Create ==
    /\ initialized
    /\ \E input \in CreateInputs :
           LET row == CreateRow(input)
           IN  IF StoreSlugTaken(personas, row)
               THEN /\ last' = [op |-> "create", id |-> row.id,
                                error |-> "savePersona failed"]
                    /\ UNCHANGED <<personas, cache, deleted, heap, held>>
               ELSE /\ personas' = StoreSavePersona(personas, row)
                    /\ cache' = ManagerInvalidateCache
                    /\ last' = [op |-> "create", id |-> row.id,
                                result |-> StoreGetPersonaById(personas', row.id)]
                    /\ deleted' = deleted \ {row.id}
                    /\ UNCHANGED <<heap, held>>
    /\ UNCHANGED <<initialized, keywords, keywordCache, seeded>>

\* CacheAfterWrite without the invalidation.
CacheAfterWrite_Keep(result) == cache

\* CacheAfterWrite that invalidates whatever the store reports.
CacheAfterWrite_Always(result) == ManagerInvalidateCache

\* What update and delete do to the cache: invalidated when the store reports
\* a change.
CacheAfterWrite(result) == IF result THEN ManagerInvalidateCache ELSE cache

\* update(id, updates)
Update ==
    /\ initialized
    /\ \E id \in WriteIds \cup {UnknownId}, updates \in UpdateInputs :
           LET result == StoreGetPersonaById(personas, id) # Null
           IN  /\ personas' = IF result
                              THEN StoreUpdatePersona(personas, id, updates)
                              ELSE personas
               /\ cache' = CacheAfterWrite(result)
               /\ last' = [op |-> "update", id |-> id, result |-> result]
    /\ UNCHANGED <<initialized, keywords, keywordCache, seeded, deleted,
                   heap, held>>

\* delete(id)
Delete ==
    /\ initialized
    /\ \E id \in WriteIds \cup {UnknownId} :
           LET result == StoreGetPersonaById(personas, id) # Null
           IN  /\ personas' = IF result THEN StoreDeletePersona(personas, id)
                              ELSE personas
               /\ keywords' = IF result THEN StoreCascadeKeywords(keywords, id)
                              ELSE keywords
               /\ cache' = CacheAfterWrite(result)
               /\ last' = [op |-> "delete", id |-> id, result |-> result]
               /\ deleted' = IF result THEN deleted \cup {id} ELSE deleted
               /\ UNCHANGED <<heap, held>>
    /\ UNCHANGED <<initialized, keywordCache, seeded>>

\* setDefault that raises for an id that matches no persona.
SetDefault_Throws ==
    /\ initialized
    /\ \E id \in WriteIds \cup {UnknownId} :
           IF StoreGetPersonaById(personas, id) = Null
           THEN /\ last' = [op |-> "setDefault", id |-> id,
                            error |-> "Persona not found"]
                /\ UNCHANGED personas
           ELSE /\ personas' = StoreSetDefaultPersona(personas, id)
                /\ last' = [op |-> "setDefault", id |-> id]
    /\ cache' = ManagerInvalidateCache
    /\ UNCHANGED <<initialized, keywords, keywordCache, seeded, deleted,
                   heap, held>>

\* setDefault that leaves the cache as it was.
SetDefault_KeepCache ==
    /\ initialized
    /\ \E id \in WriteIds \cup {UnknownId} :
           /\ personas' = StoreSetDefaultPersona(personas, id)
           /\ last' = [op |-> "setDefault", id |-> id]
    /\ UNCHANGED <<initialized, keywords, cache, keywordCache,
                 seeded, deleted, heap, held>>

\* setDefault(id)
SetDefault ==
    /\ initialized
    /\ \E id \in WriteIds \cup {UnknownId} :
           /\ personas' = StoreSetDefaultPersona(personas, id)
           /\ last' = [op |-> "setDefault", id |-> id]
    /\ cache' = ManagerInvalidateCache
    /\ UNCHANGED <<initialized, keywords, keywordCache, seeded, deleted,
                   heap, held>>

\* seedDefaults that leaves the cache as hasPersonas() filled it.
SeedDefaults_KeepCache ==
    /\ initialized
    /\ \E answers \in AnswerInputs :
           IF hasPersonas
           THEN /\ cache' = CacheAfterGetAll
                /\ last' = [op |-> "seedDefaults", seeded |-> FALSE]
                /\ UNCHANGED <<personas, keywords, seeded, deleted, heap>>
           ELSE LET call == IF answers = NoAnswers
                            THEN getDefaultTemplates(heap)
                            ELSE generatePersonas(heap, answers)
                    templates == TemplatesOf(call)
                IN  /\ heap' = Collect(call.heap)
                    /\ personas' = SeedPersonas(personas, templates)
                    /\ keywords' = SeedRouting(keywords, templates)
                    /\ cache' = CacheAfterGetAll
                    /\ last' = [op |-> "seedDefaults", seeded |-> TRUE,
                                answers |-> answers]
                    /\ seeded' = TRUE
    /\ UNCHANGED <<initialized, keywordCache, deleted, held>>

\* seedDefaults(answers)
SeedDefaults ==
    /\ initialized
    /\ \E answers \in AnswerInputs :
           IF hasPersonas
           THEN /\ cache' = CacheAfterGetAll
                /\ last' = [op |-> "seedDefaults", seeded |-> FALSE]
                /\ UNCHANGED <<personas, keywords, seeded, deleted, heap>>
           ELSE LET call == IF answers = NoAnswers
                            THEN getDefaultTemplates(heap)
                            ELSE generatePersonas(heap, answers)
                    templates == TemplatesOf(call)
                IN  /\ heap' = Collect(call.heap)
                    /\ personas' = SeedPersonas(personas, templates)
                    /\ keywords' = SeedRouting(keywords, templates)
                    /\ cache' = ManagerInvalidateCache
                    /\ last' = [op |-> "seedDefaults", seeded |-> TRUE,
                                answers |-> answers]
                    /\ seeded' = TRUE
    /\ UNCHANGED <<initialized, keywordCache, deleted, held>>

\* route(message) as an operation: its result and what it leaves behind.  The
\* keyword map is built when stage 2 is reached; the manager's cache is
\* filled when classifyIntent reaches getPersonas().
RouteMessage(m) ==
    /\ initialized
    /\ last' = [op |-> "route", message |-> m, result |-> route(m)]
    /\ keywordCache' = IF detectMention(m) # Null THEN keywordCache
                       ELSE getKeywordMap
    /\ cache' = IF /\ detectMention(m) = Null
                   /\ GatesPass(IntentRanking(m, getKeywordMap))
                THEN CacheAfterGetAll ELSE cache
    /\ UNCHANGED <<initialized, personas, keywords, seeded, deleted,
                   heap, held>>

\* route(message) for one of the sample messages.
Route == \E m \in SampleMessages : RouteMessage(m)

\* invalidateCache() that keeps the keyword map.
InvalidateCache_KeepMap ==
    /\ last' = [op |-> "invalidateCache"]
    /\ UNCHANGED <<initialized, personas, keywords, cache, keywordCache,
                   seeded, deleted, heap, held>>

\* PersonaRouter.invalidateCache(), called by whoever holds the router.
InvalidateCache ==
    /\ keywordCache' = ColdKeywordCache
    /\ last' = [op |-> "invalidateCache"]
    /\ UNCHANGED <<initialized, personas, keywords, cache, seeded, deleted,
                   heap, held>>

-----------------------------------------------------------------------------
(* The manager and the router over the store *)

Init ==
    /\ initialized = FALSE
    /\ personas = EmptyTable
    /\ keywords = {}
    /\ cache = ColdCache
    /\ keywordCache = ColdKeywordCache
    /\ last = [op |-> "none"]
    /\ seeded = FALSE
    /\ deleted = {}
    /\ heap = CatalogHeap
    /\ held = <<>>

Next ==
    \/ Initialize
    \/ Uninitialized
    \/ GetAll
    \/ GetById
    \/ GetBySlug
    \/ GetDefault
    \/ Create
    \/ Update
    \/ Delete
    \/ SetDefault
    \/ SeedDefaults
    \/ Route
    \/ InvalidateCache

Spec == Init /\ [][Next]_vars

-----------------------------------------------------------------------------
(* The router over a fixed configuration, for every short message *)

\* The characters messages are typed from: two letters, a capital, a blank
\* and the at sign.
Alphabet == {"a", "b", "A", " ", "@"}

\* Every message of at most MaxMsgLen characters, and some longer ones.
Messages ==
    UNION {[1..n -> Alphabet] : n \in 0..MaxMsgLen}
        \cup {Chars(s) : s \in {"@a bbb", "@b aaa", "bbb @a", "aaa bbb",
                                 "@A aaa", "@a    ", "@a-b aaa",
                                 "what's our burn rate this month",
                                 "aaa b bbb", "aaa aaa bbb", "@a @b",
                                 "aaa@b"}}

Row(id, slug, isDefault, isActive) ==
    [id |-> id, slug |-> slug, is_default |-> isDefault, is_active |-> isActive]

Keyword(id, keyword, weight) ==
    [persona_id |-> id, keyword |-> keyword, weight |-> weight]

\* The coordinator and two specialists: as seeded, with a specialist
\* deactivated, with a capitalised slug, with a hyphenated slug, without the
\* coordinator, and with the coordinator deactivated.
RouteTables ==
    LET cos(present, active) ==
            IF present THEN Row("chief-of-staff", "ab", TRUE, active) ELSE Null
        table(c, g, f) ==
            [id \in PersonaIds |->
                CASE id = "chief-of-staff" -> c
                  [] id = "growth-advisor" -> g
                  [] id = "finance-ops" -> f
                  [] OTHER -> Null]
        growth(slug, active) == Row("growth-advisor", slug, FALSE, active)
        finance == Row("finance-ops", "b", FALSE, TRUE)
    IN  {table(cos(TRUE, TRUE), growth("a", TRUE), finance),
         table(cos(TRUE, TRUE), growth("a", FALSE), finance),
         table(cos(TRUE, TRUE), growth("A", TRUE), finance),
         table(cos(TRUE, TRUE), growth("a-b", TRUE), finance),
         table(cos(FALSE, TRUE), growth("a", TRUE), finance),
         table(cos(TRUE, FALSE), growth("a", TRUE), finance)}

\* Keyword tables: a keyword two specialists share at the ratios 1.5, 1.51
\* and 1.4, a keyword of one persona alone, a keyword of the coordinator, a
\* keyword below the threshold, keywords at the threshold 0.15 for one and for
\* two tokens, the phrase "burn rate" of the finance persona alone, and no
\* keywords at all.
RouteKeywords ==
    {{Keyword("growth-advisor", "aaa", 150), Keyword("finance-ops", "aaa", 100),
      Keyword("finance-ops", "bbb", 100)},
     {Keyword("growth-advisor", "aaa", 151), Keyword("finance-ops", "aaa", 100),
      Keyword("chief-of-staff", "bbb", 100)},
     {Keyword("growth-advisor", "aaa", 140), Keyword("finance-ops", "aaa", 100),
      Keyword("growth-advisor", "bbb", 10)},
     {Keyword("growth-advisor", "aaa", 30), Keyword("finance-ops", "bbb", 15)},
     {Keyword("finance-ops", "burn rate", WEIGHT_ONE)},
     {}}

\* The keywords of a table reference personas of the table only.
InitRoute ==
    /\ initialized = TRUE
    /\ personas \in RouteTables
    /\ \E K \in RouteKeywords :
           keywords = {k \in K : personas[k.persona_id] # Null}
    /\ cache = ColdCache
    /\ keywordCache = ColdKeywordCache
    /\ last = [op |-> "none"]
    /\ seeded = FALSE
    /\ deleted = {}
    /\ heap = CatalogHeap
    /\ held = <<>>

\* route(message) for any message, and again for the same message with the
\* caches the first call left.
RouteTyped ==
    \E m \in Messages :
        /\ last.op = "route" => m = last.message
        /\ RouteMessage(m)

NextRoute == RouteTyped

SpecRoute == InitRoute /\ [][NextRoute]_vars

-----------------------------------------------------------------------------
(* Properties *)

Routed == last.op = "route"

\* The message of the last route().
RoutedMessage == last.message

IsError(r) == "error" \in DOMAIN r

\* The method of the last route(), "error" when it raised.
RoutedMethod == IF IsError(last.result) THEN "error" ELSE last.result.method

\* The personas that hold the default flag and are active.
ActiveDefaults ==
    {id \in PersonaIds :
        personas[id] # Null /\ personas[id].is_default /\ personas[id].is_active}

\* The last operation was a create, update, delete or setDefault that
\* returned normally, update and delete with true.
WriteCompleted ==
    /\ "error" \notin DOMAIN last
    /\ \/ last.op = "create"
       \/ last.op \in {"update", "delete"} /\ last.result = TRUE
       \/ last.op = "setDefault"

\* The last operation was a seedDefaults that seeded the catalog.
SeedCompleted ==
    "error" \notin DOMAIN last /\ last.op = "seedDefaults" /\ last.seeded

\* C1: in every state reached after seedDefaults by any sequence of manager
\* operations, exactly one active persona has is_default = true.
C1_ExactlyOneDefault == seeded => Cardinality(ActiveDefaults) = 1

\* C2: after a completed create, update, delete, setDefault or seedDefaults
\* the router holds no keyword map built before the write: its map is
\* invalidated, or is the map of the keywords as they are now.
C2_KeywordMapFresh ==
    (WriteCompleted \/ SeedCompleted)
        => (keywordCache.built
                => keywordCache.entries = BuildKeywordMap(ConfigGetAllKeywords))

\* The slugs a caller may look up.
LookupSlugs == {"cos", "growth", "finance", "ops", "Ops"}

\* C3: right after a completed create, update, delete or setDefault, the
\* manager's getById, getBySlug, getDefault and getAll return what the store
\* holds now.
C3_ReadAfterWrite ==
    WriteCompleted =>
        /\ \A id \in PersonaIds \cup {UnknownId} :
               ManagerGetById(id) = StoreGetPersonaById(personas, id)
        /\ \A s \in LookupSlugs :
               ManagerGetBySlug(Chars(s)) = StoreGetPersonaBySlug(personas, Chars(s))
        /\ ManagerGetDefault = StoreGetDefaultPersona(personas)
        /\ ManagerGetAll(FALSE) = StoreGetPersonas(personas, FALSE)
        /\ ManagerGetAll(TRUE) = StoreGetPersonas(personas, TRUE)

\* An update has deactivated the finance persona, and getById shows it.
C3_Witness ==
    /\ WriteCompleted /\ last.op = "update" /\ last.id = "finance-ops"
    /\ ~personas["finance-ops"].is_active
    /\ ~ManagerGetById("finance-ops").is_active

\* C4: the persona in the result of route() is active, whichever stage
\* produced it.
C4_RoutedPersonaActive ==
    (Routed /\ ~IsError(last.result)) => last.result.persona.is_active

\* "@<slug> <rest>" for the stored slug of a persona: the text before rest.
MentionPrefix(p) == <<"@">> \o Chars(p.slug) \o <<" ">>

StartsWith(m, prefix) ==
    Len(m) >= Len(prefix) /\ SubSeq(m, 1, Len(prefix)) = prefix

\* C5: a message "@<slug> <rest>", <slug> the slug of an active persona, is
\* routed to that persona with method mention, confidence 1.0 and
\* strippedMessage rest.trim(), or the message itself when nothing is left.
C5_MentionLaw ==
    Routed =>
        \A id \in PersonaIds :
            (/\ personas[id] # Null
             /\ personas[id].is_active
             /\ StartsWith(RoutedMessage, MentionPrefix(personas[id])))
            => LET p == personas[id]
                   rest == SubSeq(RoutedMessage, Len(MentionPrefix(p)) + 1, Len(RoutedMessage))
               IN  last.result =
                       [persona |-> p, method |-> "mention",
                        confidence |-> FullConfidence,
                        strippedMessage |->
                            IF Trim(rest) = <<>> THEN RoutedMessage ELSE Trim(rest)]

\* The ranking stage 2 computes for the routed message.
RoutedRanking == IntentRanking(RoutedMessage, getKeywordMap)

\* Stage 2 is reached with exactly two personas scoring.
TwoScored == Routed /\ detectMention(RoutedMessage) = Null /\ RoutedRanking.size = 2

\* The top score is num/100 times the runner-up score.
RatioIs(r, num) == r.topScore * WEIGHT_ONE = r.secondScore * num

\* C6 as claimed: at a ratio of exactly 1.5 between two scoring personas
\* route yields no intent match.
C6_DominanceExclusive ==
    (TwoScored /\ RatioIs(RoutedRanking, 150)) => RoutedMethod # "intent"

\* C6 as amended: at a ratio of exactly 1.5, as at 1.51, route yields an
\* intent match for the top scorer when the threshold gate passes and the
\* winner is not the default; below 1.5 it yields none.
C6_DominanceInclusive ==
    TwoScored =>
        LET r == RoutedRanking
        IN  /\ (/\ RatioIs(r, 150) \/ RatioIs(r, 151)
                /\ r.topScore >= MIN_THRESHOLD * r.words
                /\ ~WinnerIsDefault(r))
               => (RoutedMethod = "intent" /\ last.result.persona.id = r.topId)
            /\ r.topScore * WEIGHT_ONE < r.secondScore * 150
               => RoutedMethod # "intent"

\* Two personas score at the ratio 1.5 and the message is routed by intent.
C6_Witness ==
    TwoScored /\ RatioIs(RoutedRanking, 150) /\ RoutedMethod = "intent"

\* The persona the first @token of a message names: the token, lower-cased,
\* looked up as a slug.
Mentioned(m) == ConfigGetBySlug(ToLowerCase(MentionMatch(m).token))

\* The first @token of the message names an active persona.
MentionsActive(m) ==
    /\ AtTokens(m) # {}
    /\ Mentioned(m) # Null
    /\ Mentioned(m).is_active

\* C7: a message that mentions an active persona is routed to it with method
\* mention, whatever stage 2 would answer; stage 2 answers only when stage 1
\* yields nothing, and stage 3 only when both yield nothing.
C7_StageOrder ==
    Routed =>
        LET intent == classifyIntent(RoutedMessage, getKeywordMap)
        IN  /\ MentionsActive(RoutedMessage)
               => (RoutedMethod = "mention" /\ last.result.persona = Mentioned(RoutedMessage))
            /\ (~MentionsActive(RoutedMessage) /\ intent # Null) => last.result = intent
            /\ RoutedMethod \in {"default", "error"}
               => (~MentionsActive(RoutedMessage) /\ intent = Null)

\* A mention wins although stage 2 would route to another persona.
C7_Witness ==
    /\ Routed
    /\ RoutedMethod = "mention"
    /\ classifyIntent(RoutedMessage, getKeywordMap) # Null
    /\ classifyIntent(RoutedMessage, getKeywordMap).persona.id # last.result.persona.id

\* The only @token of the message names no persona, or an inactive one.
OnlyMentionUnresolved(m) ==
    /\ Cardinality(AtTokens(m)) = 1
    /\ Mentioned(m) = Null \/ ~Mentioned(m).is_active

\* C8: when the only @token of a message resolves to no active persona, the
\* result is that of stages 2 and 3: never method mention, and an error only
\* when no default persona is configured.
C8_MentionFallThrough ==
    (Routed /\ OnlyMentionUnresolved(RoutedMessage)) =>
        LET intent == classifyIntent(RoutedMessage, getKeywordMap)
        IN  /\ RoutedMethod # "mention"
            /\ intent # Null => last.result = intent
            /\ intent = Null => RoutedMethod \in {"default", "error"}
            /\ RoutedMethod = "error" => ConfigGetDefault = Null

\* An unresolved mention is followed by an intent match.
C8_Witness ==
    Routed /\ OnlyMentionUnresolved(RoutedMessage) /\ RoutedMethod = "intent"

\* An empty or whitespace-only message.
IsBlank(m) == \A i \in DOMAIN m : IsSpace(m[i])

C10_MissingDefault ==
    Routed =>
        LET nothing == /\ detectMention(RoutedMessage) = Null
                       /\ classifyIntent(RoutedMessage, getKeywordMap) = Null
        IN  /\ (nothing /\ ConfigGetDefault = Null)
               => last.result = [error |-> "No default persona configured"]
            /\ IsError(last.result) => (nothing /\ ConfigGetDefault = Null)

\* route raised although personas exist to pick from.
C10_Witness ==
    Routed /\ IsError(last.result) /\ StoreRows(personas) # <<>>

\* C11: once seedDefaults has seeded, no route() raises the missing-default
\* error: after any manager operations every routed message gets a result.
C11_NoErrorAfterSeed == (seeded /\ Routed) => ~IsError(last.result)

\* C12: no result of route() has method intent together with the persona
\* getDefault() returns, even when that persona has the highest score.
C12_DefaultNeverByIntent ==
    (Routed /\ RoutedMethod = "intent")
        => last.result.persona # ConfigGetDefault

\* The default persona had the top score, passed the threshold and the
\* dominance gate, and the message went to it by the fallback.
C12_Witness ==
    /\ Routed
    /\ detectMention(RoutedMessage) = Null
    /\ RoutedRanking.size > 0
    /\ ConfigGetDefault # Null
    /\ RoutedRanking.topId = ConfigGetDefault.id
    /\ RoutedRanking.topScore >= MIN_THRESHOLD * RoutedRanking.words
    /\ RoutedRanking.topScore * WEIGHT_ONE
           >= RoutedRanking.secondScore * DOMINANCE_RATIO
    /\ RoutedMethod = "default"

SeedStep == initialized /\ last'.op = "seedDefaults"

SelectedTemplates(answers) ==
    IF answers = NoAnswers THEN PERSONA_TEMPLATES
    ELSE TemplatesOf(generatePersonas(heap, answers))

\* The keywords of a template that fall within the bound of the model.
KeywordsOf(template) ==
    {template.keywords[j] :
        j \in 1..Min({Len(template.keywords), MaxSeedKeywords})}

\* C16: seedDefaults on a store without personas persists exactly one
\* persona per selected template (the eight of the catalog when answers is
\* absent, generatePersonas(answers) otherwise), each active, registers each
\* keyword of each template for its persona at weight 1.0, leaves exactly one
\* persona with is_default, and invalidates the cache, so that the next
\* getAll returns the seeded personas.
C16_SeedPostcondition ==
    SeedCompleted =>
        LET templates == SelectedTemplates(last.answers)
            ids == {templates[i].id : i \in DOMAIN templates}
        IN  /\ last.answers = NoAnswers => Len(templates) = 8
            /\ Cardinality(ids) = Len(templates)
            /\ {id \in PersonaIds : personas[id] # Null} = ids
            /\ \A i \in DOMAIN templates :
                   personas[templates[i].id] =
                       [id |-> templates[i].id, slug |-> templates[i].slug,
                        is_default |-> templates[i].is_default,
                        is_active |-> TRUE]
            /\ keywords =
                   UNION {{[persona_id |-> templates[i].id, keyword |-> k,
                            weight |-> WEIGHT_ONE] : k \in KeywordsOf(templates[i])} :
                          i \in DOMAIN templates}
            /\ Cardinality({id \in ids : personas[id].is_default}) = 1
            /\ ~cache.warm
            /\ Len(ManagerGetAll(FALSE)) = Len(templates)
            /\ \A i \in DOMAIN templates :
                   \E j \in DOMAIN ManagerGetAll(FALSE) :
                       ManagerGetAll(FALSE)[j] = personas[templates[i].id]

\* seedDefaults seeded the subset generatePersonas selected for the answers.
C16_Witness ==
    /\ SeedCompleted
    /\ last.answers # NoAnswers
    /\ Len(StoreRows(personas)) = 2
    /\ personas["finance-ops"] # Null
    /\ personas["sales-advisor"] = Null

\* The operations of the manager that call ensureInitialized().
ManagerOps ==
    {"getAll", "getById", "getBySlug", "getDefault", "create", "update",
     "delete", "setDefault", "seedDefaults"}

\* C17: each of getAll, getById, getBySlug, getDefault, create, update,
\* delete, setDefault and seedDefaults, called before initialize(store), fails
\* with the 'not initialized' error and changes neither the store nor the
\* cache of the manager.
C17_UninitializedUse ==
    [][(~initialized /\ last'.op \in ManagerOps)
           => (/\ "error" \in DOMAIN last'
               /\ last'.error = "PersonaManager not initialized"
               /\ personas' = personas
               /\ keywords' = keywords
               /\ cache' = cache
               /\ ~initialized')]_vars

\* seedDefaults has failed before initialize(store).
C17_Witness ==
    /\ ~initialized
    /\ last.op = "seedDefaults"
    /\ last.error = "PersonaManager not initialized"

\* A step of update or delete that got past ensureInitialized().
UpdateOrDeleteStep == initialized /\ last'.op \in {"update", "delete"}

\* C18: update(id, partial) and delete(id) for an id that matches no persona
\* return false without raising and leave the store and the cache of the
\* manager exactly as they were; the cache is invalidated only when the store
\* reports a mutation.
C18_NoOpWriteKeepsCache ==
    [][UpdateOrDeleteStep =>
           /\ StoreGetPersonaById(personas, last'.id) = Null
              => (/\ "error" \notin DOMAIN last'
                  /\ last'.result = FALSE
                  /\ personas' = personas
                  /\ keywords' = keywords
                  /\ cache' = cache)
           /\ cache' # cache => last'.result = TRUE]_vars

\* An update of an unknown id returned false and the cache is still warm.
C18_Witness ==
    /\ last.op = "update"
    /\ initialized
    /\ last.id = UnknownId
    /\ last.result = FALSE
    /\ cache.warm
    /\ cache.rows # <<>>

\* The personas that hold the default flag.
FlaggedDefault ==
    {id \in PersonaIds : personas[id] # Null /\ personas[id].is_default}

\* C19: after setDefault(id) for the id of an existing persona, id is the
\* only persona with is_default = true, and a getDefault() that follows
\* returns that persona when it is active.
C19_SetDefaultExclusive ==
    (/\ initialized
     /\ last.op = "setDefault"
     /\ "error" \notin DOMAIN last
     /\ StoreGetPersonaById(personas, last.id) # Null)
    => /\ FlaggedDefault = {last.id}
       /\ personas[last.id].is_active => ManagerGetDefault = personas[last.id]

\* setDefault moved the flag from the coordinator to the finance persona.
C19_Witness ==
    /\ initialized
    /\ last.op = "setDefault"
    /\ last.id = "finance-ops"
    /\ personas["chief-of-staff"] # Null
    /\ ~personas["chief-of-staff"].is_default
    /\ personas["finance-ops"] # Null
    /\ ManagerGetDefault = personas["finance-ops"]

C21_NoResurrection ==
    \A id \in deleted :
        /\ personas[id] = Null
        /\ \A k \in keywords : k.persona_id # id
        /\ ManagerGetById(id) = Null
        /\ \A i \in DOMAIN ManagerGetAll(FALSE) : ManagerGetAll(FALSE)[i].id # id

\* The rows of the store, all of them or the active ones.
StoredPersonas(activeOnly) ==
    {personas[id] : id \in {x \in PersonaIds :
        /\ personas[x] # Null
        /\ activeOnly => personas[x].is_active}}

InitId ==
    /\ initialized = TRUE
    /\ personas = EmptyTable
    /\ keywords = {}
    /\ cache = ColdCache
    /\ keywordCache = ColdKeywordCache
    /\ seeded = FALSE
    /\ deleted = {}
    /\ heap = CatalogHeap
    /\ held = <<>>
    /\ last \in {[op |-> "input", input |-> x] : x \in IdInputs}

DeriveId ==
    /\ last.op = "input"
    /\ last' = [op |-> "createId", input |-> last.input,
                result |-> CreateId(last.input)]
    /\ UNCHANGED <<initialized, personas, keywords, cache, keywordCache,
                   seeded, deleted, heap, held>>

NextId == DeriveId

SpecId == InitId /\ [][NextId]_vars

RECURSIVE AlnumRuns(_, _, _)
\* The maximal runs of [a-z0-9] of s, in order.
AlnumRuns(s, i, run) ==
    LET done == IF run = <<>> THEN <<>> ELSE <<run>>
    IN  IF i > Len(s) THEN done
        ELSE IF IsTokenChar(s[i]) THEN AlnumRuns(s, i + 1, Append(run, s[i]))
        ELSE done \o AlnumRuns(s, i + 1, <<>>)

RECURSIVE JoinHyphen(_)
JoinHyphen(runs) ==
    IF runs = <<>> THEN <<>>
    ELSE IF Len(runs) = 1 THEN runs[1]
    ELSE runs[1] \o <<"-">> \o JoinHyphen(Tail(runs))

CleanHyphens(r) ==
    r = <<>> \/ /\ r[1] # "-"
                /\ r[Len(r)] # "-"
                /\ \A i \in 1..(Len(r) - 1) : ~(r[i] = "-" /\ r[i + 1] = "-")

\* C23: when create is given no id, the id is the lower-cased name with each
\* run of non-alphanumeric characters replaced by one hyphen and the hyphens
\* at the two ends removed, so it has no leading, trailing or doubled hyphen
\* ("Chief of Staff" gives "chief-of-staff", "R&D!! Lead" gives "r-d-lead");
\* a supplied non-empty id is used unchanged.
C23_IdDerivation ==
    last.op = "createId" =>
        /\ last.input.id # <<>> => last.result = last.input.id
        /\ last.input.id = <<>> =>
            /\ last.result
                 = JoinHyphen(AlnumRuns(ToLowerCase(last.input.name), 1, <<>>))
            /\ CleanHyphens(last.result)
            /\ last.input.name = ChiefOfStaffName =>
                 last.result = <<"c", "h", "i", "e", "f", "-", "o", "f", "-",
                                 "s", "t", "a", "f", "f">>
            /\ last.input.name = RnDLeadName =>
                 last.result = <<"r", "-", "d", "-", "l", "e", "a", "d">>

C23_Witness ==
    /\ last.op = "createId"
    /\ last.input.id = <<>>
    /\ last.input.name = RnDLeadName
    /\ last.result = <<"r", "-", "d", "-", "l", "e", "a", "d">>

\* ---------------------------------------------------------------------
\* The onboarding generator on its own: answers, then generatePersonas.

InitGen ==
    /\ initialized = TRUE
    /\ personas = EmptyTable
    /\ keywords = {}
    /\ cache = ColdCache
    /\ keywordCache = ColdKeywordCache
    /\ seeded = FALSE
    /\ deleted = {}
    /\ heap = CatalogHeap
    /\ held = <<>>
    /\ last \in {[op |-> "answers", answers |-> a, calls |-> 0] :
                  a \in GenInputs}

\* A call of generatePersonas with the answers, the first or a later one; the
\* array it returns is read and dropped.
Generate ==
    /\ last.calls < MaxCalls
    /\ LET call == generatePersonas(heap, last.answers)
       IN  /\ last' = [op |-> "generatePersonas", answers |-> last.answers,
                       result |-> TemplatesOf(call),
                       calls |-> last.calls + 1]
           /\ heap' = Collect(call.heap)
    /\ UNCHANGED <<initialized, personas, keywords, cache, keywordCache,
                   seeded, deleted, held>>

NextGen == Generate

SpecGen == InitGen /\ [][NextGen]_vars

\* ---------------------------------------------------------------------
\* The template catalog and its callers: getDefaultTemplates() and the
\* writes a caller makes through the templates it was given.

GetTemplates ==
    /\ Len(held) < MaxCalls
    /\ LET copies == getDefaultTemplates(heap)
       IN  /\ heap' = copies.heap
           /\ held' = Append(held, copies.refs)
           /\ last' = [op |-> "getDefaultTemplates", result |-> copies.refs]
    /\ UNCHANGED <<initialized, personas, keywords, cache, keywordCache,
                   seeded, deleted>>

\* template.identity = ...
SetIdentity ==
    /\ \E k \in DOMAIN held, i \in MutatedIndexes :
           LET ref == held[k][i]
           IN  /\ heap.templates[ref].identity # <<"mutated">>
               /\ heap' = [heap EXCEPT !.templates[ref].identity = <<"mutated">>]
               /\ last' = [op |-> "setIdentity", ref |-> ref]
    /\ UNCHANGED <<initialized, personas, keywords, cache, keywordCache,
                   seeded, deleted, held>>

\* template.keywords.push(...)
PushKeyword ==
    /\ \E k \in DOMAIN held, i \in MutatedIndexes :
           LET ref == held[k][i]
               list == heap.templates[ref].keywords
           IN  /\ "mutated" \notin Range(heap.lists[list])
               /\ heap' = [heap EXCEPT !.lists[list] = Append(@, "mutated")]
               /\ last' = [op |-> "push", ref |-> ref]
    /\ UNCHANGED <<initialized, personas, keywords, cache, keywordCache,
                   seeded, deleted, held>>

\* template.keywords.pop()
PopKeyword ==
    /\ \E k \in DOMAIN held, i \in MutatedIndexes :
           LET ref == held[k][i]
               list == heap.templates[ref].keywords
           IN  /\ Len(heap.lists[list]) >= Len(PERSONA_TEMPLATES[i].keywords)
               /\ heap' = [heap EXCEPT
                              !.lists[list] = SubSeq(@, 1, Len(@) - 1)]
               /\ last' = [op |-> "pop", ref |-> ref]
    /\ UNCHANGED <<initialized, personas, keywords, cache, keywordCache,
                   seeded, deleted, held>>

NextTemplates ==
    \/ GetTemplates
    \/ SetIdentity
    \/ PushKeyword
    \/ PopKeyword

SpecTemplates == Init /\ [][NextTemplates]_vars

HeldRefs == UNION {Range(held[k]) : k \in DOMAIN held}

CatalogIntact ==
    \A i \in DOMAIN PERSONA_TEMPLATES :
        ValueOf(heap, CatalogRefs[i]) = PERSONA_TEMPLATES[i]

\* C24: getDefaultTemplates returns deep copies: whatever a caller writes to
\* a returned template (a field, or an entry added to or removed from its
\* keywords), the catalog stays as it was, every other template stays as it
\* was, and every later getDefaultTemplates() returns the catalog's values.
C24_DeepCopies ==
    [][/\ CatalogIntact'
       /\ last'.op = "getDefaultTemplates"
          => [i \in DOMAIN last'.result |-> ValueOf(heap', last'.result[i])]
                = PERSONA_TEMPLATES
       /\ last'.op \in {"setIdentity", "push", "pop"}
          => \A ref \in (Range(CatalogRefs) \cup HeldRefs) \ {last'.ref} :
                 ValueOf(heap', ref) = ValueOf(heap, ref)]_vars

C24_Witness ==
    /\ Len(held) = 2
    /\ last.op = "getDefaultTemplates"
    /\ last.result = held[2]
    /\ ValueOf(heap, held[1][3]).identity = <<"mutated">>
    /\ Len(ValueOf(heap, held[1][3]).keywords)
         > Len(PERSONA_TEMPLATES[3].keywords)
    /\ Len(ValueOf(heap, held[1][1]).keywords)
         < Len(PERSONA_TEMPLATES[1].keywords)
    /\ ValueOf(heap, held[2][3]) = PERSONA_TEMPLATES[3]

GeneratedIds == [i \in DOMAIN last.result |-> last.result[i].id]

\* The template ids the known gaps of the answers resolve to, the
\* coordinator left out.
KnownGapIds ==
    {GAP_TO_PERSONA[last.answers.gaps[j]] :
        j \in {x \in DOMAIN last.answers.gaps :
                  last.answers.gaps[x] \in DOMAIN GAP_TO_PERSONA}}
        \ {"chief-of-staff"}

FirstSeen(id) ==
    Min({j \in DOMAIN last.answers.gaps :
            /\ last.answers.gaps[j] \in DOMAIN GAP_TO_PERSONA
            /\ GAP_TO_PERSONA[last.answers.gaps[j]] = id})

CatalogTemplate(id) ==
    Find(PERSONA_TEMPLATES,
         {i \in DOMAIN PERSONA_TEMPLATES : PERSONA_TEMPLATES[i].id = id})

\* C25: generatePersonas(answers) returns the default coordinator template
\* first, then the templates the gaps of answers.gaps resolve to, without
\* duplicates and in the order the gaps are first seen; unknown gaps and gaps
\* resolving to the coordinator add nothing, so the length is 1 plus the
\* number of distinct known gaps that are not the coordinator's.
C25_GeneratedSelection ==
    last.op = "generatePersonas" =>
        /\ last.result # <<>>
        /\ GeneratedIds[1] = "chief-of-staff"
        /\ last.result[1].is_default
        /\ Len(GeneratedIds) = 1 + Cardinality(KnownGapIds)
        /\ {GeneratedIds[i] : i \in 2..Len(GeneratedIds)} = KnownGapIds
        /\ \A i, j \in 2..Len(GeneratedIds) :
               i < j => FirstSeen(GeneratedIds[i]) < FirstSeen(GeneratedIds[j])
        /\ \A i \in DOMAIN last.result :
               /\ last.result[i].slug = CatalogTemplate(GeneratedIds[i]).slug
               /\ last.result[i].keywords
                    = CatalogTemplate(GeneratedIds[i]).keywords

C25_Witness ==
    /\ last.op = "generatePersonas"
    /\ last.answers.gaps = <<"finance", "strategy", "unknown", "finance">>
    /\ GeneratedIds = <<"chief-of-staff", "finance-ops">>

Sections(text, heading) ==
    Cardinality({j \in DOMAIN text : text[j] = heading})

\* C26: in the result of generatePersonas(answers) every template has exactly
\* one Startup Context section, with the guidance of answers.startup_stage,
\* appended to its identity and to its system_prompt_prefix, and exactly one
\* Founder Context section, with the guidance of answers.founder_role, is
\* appended to the identity of the default coordinator and to nothing else.
C26_ContextSections ==
    last.op = "generatePersonas" =>
        \A i \in DOMAIN last.result :
            LET template == last.result[i]
                base == CatalogTemplate(template.id)
                stage == <<"## Startup Context",
                           STAGE_CONTEXT[last.answers.startup_stage]>>
                role == <<"## Founder Context",
                          ROLE_CONTEXT[last.answers.founder_role]>>
            IN  /\ template.system_prompt_prefix
                     = base.system_prompt_prefix \o stage
                /\ template.identity
                     = base.identity \o stage
                         \o (IF template.id = "chief-of-staff" THEN role
                             ELSE <<>>)
                /\ Sections(template.identity, "## Startup Context") = 1
                /\ Sections(template.system_prompt_prefix,
                            "## Startup Context") = 1
                /\ Sections(template.system_prompt_prefix,
                            "## Founder Context") = 0
                /\ Sections(template.identity, "## Founder Context")
                     = (IF template.id = "chief-of-staff" THEN 1 ELSE 0)

C26_Witness ==
    /\ last.op = "generatePersonas"
    /\ last.answers.startup_stage = "series-a"
    /\ last.answers.founder_role = "product"
    /\ Len(last.result) = 3
    /\ last.result[1].identity
         = <<"You are the Chief of Staff", "## Startup Context",
             "The startup is Series A.", "## Founder Context",
             "The founder is product-focused.">>
    /\ last.result[2].identity
         = <<"You are the Growth Advisor", "## Startup Context",
             "The startup is Series A.">>

\* The first @token of the message is a spelling, in any case, of the slug of
\* persona p.
SpellsSlugOf(m, p) ==
    /\ MentionMatch(m) # Null
    /\ ToLowerCase(MentionMatch(m).token) = ToLowerCase(Chars(p.slug))

\* C27: @slug addressing is case-insensitive: a message whose @token is any
\* case variant of the slug of an active persona, however the slug is
\* capitalised in the store, is routed to that persona with method mention.
C27_CaseInsensitiveMention ==
    Routed =>
        \A id \in PersonaIds :
            (/\ personas[id] # Null
             /\ personas[id].is_active
             /\ SpellsSlugOf(RoutedMessage, personas[id]))
            => /\ RoutedMethod = "mention"
               /\ last.result.persona = personas[id]

BurnRateMessage == Chars("what's our burn rate this month")

\* The message routed while "burn rate", at weight 1.0 for the finance
\* persona, is the only keyword registered.
BurnRateScenario ==
    /\ Routed
    /\ RoutedMessage = BurnRateMessage
    /\ keywords = {Keyword("finance-ops", "burn rate", WEIGHT_ONE)}

\* C28 as stated: 5 tokens of length >= 3, normalized score 1.0/5 = 0.2,
\* method intent, persona finance-ops.
C28_FiveTokens ==
    BurnRateScenario =>
        /\ Len(Tokenize(RoutedMessage)) = 5
        /\ RoutedMethod = "intent"
        /\ last.result.persona.id = "finance-ops"
        /\ last.result.confidence.num * 5 = last.result.confidence.den

\* C28: routing "what's our burn rate this month" when only the finance
\* persona registers "burn rate" (weight 1.0) tokenizes the message into the
\* 6 tokens what, our, burn, rate, this, month, gives the normalized score
\* 1.0/6, which is above the threshold 0.15, and returns method intent with
\* persona finance-ops.
C28_SixTokens ==
    BurnRateScenario =>
        /\ Tokenize(RoutedMessage)
             = <<<<"w", "h", "a", "t">>, <<"o", "u", "r">>,
                 <<"b", "u", "r", "n">>, <<"r", "a", "t", "e">>,
                 <<"t", "h", "i", "s">>, <<"m", "o", "n", "t", "h">>>>
        /\ RoutedRanking.size = 1
        /\ RoutedRanking.topScore = WEIGHT_ONE
        /\ RoutedRanking.words = 6
        /\ ~BelowThreshold(RoutedRanking)
        /\ RoutedMethod = "intent"
        /\ last.result.persona.id = "finance-ops"
        /\ last.result.confidence.num * 6 = last.result.confidence.den

C28_Witness ==
    /\ BurnRateScenario
    /\ Len(Tokenize(RoutedMessage)) = 6
    /\ RoutedMethod = "intent"
    /\ last.result.persona.id = "finance-ops"

\* What is left of the message around its first @token.
OutsideMention(m) ==
    LET match == MentionMatch(m)
    IN  SubSeq(m, 1, match.start - 1) \o SubSeq(m, match.end + 1, Len(m))

\* C29: a result of route carries strippedMessage if and only if its method
\* is mention, and strippedMessage is never the empty string: it is the
\* message without the @token, trimmed, or the original message when nothing
\* but whitespace is left.
C29_StrippedMessage ==
    Routed =>
        /\ ("strippedMessage" \in DOMAIN last.result) <=> (RoutedMethod = "mention")
        /\ RoutedMethod = "mention" =>
            LET rest == OutsideMention(RoutedMessage)
            IN  /\ last.result.strippedMessage # <<>>
                /\ ~IsBlank(last.result.strippedMessage)
                /\ IsBlank(rest) => last.result.strippedMessage = RoutedMessage
                /\ ~IsBlank(rest) => last.result.strippedMessage = Trim(rest)

C29_Witness ==
    /\ Routed
    /\ RoutedMethod = "mention"
    /\ Len(RoutedMessage) > Len(MentionMatch(RoutedMessage).token) + 1
    /\ IsBlank(OutsideMention(RoutedMessage))
    /\ last.result.strippedMessage = RoutedMessage

\* The maximal runs of [a-z0-9] of at least MIN_TOKEN_LENGTH characters in
\* the lower-cased text l, as <<first, last>> positions.
LongRuns(l) ==
    {span \in (1..Len(l)) \X (1..Len(l)) :
        /\ span[2] - span[1] + 1 >= MIN_TOKEN_LENGTH
        /\ \A j \in span[1]..span[2] : IsTokenChar(l[j])
        /\ span[1] = 1 \/ ~IsTokenChar(l[span[1] - 1])
        /\ span[2] = Len(l) \/ ~IsTokenChar(l[span[2] + 1])}

\* The reference tokens of a message: its long runs in message order.
ReferenceTokens(m) ==
    LET l == ToLowerCase(m)
        runs == LongRuns(l)
    IN  [k \in 1..Cardinality(runs) |->
            LET span == CHOOSE s \in runs :
                            Cardinality({t \in runs : t[1] < s[1]}) = k - 1
            IN  SubSeq(l, span[1], span[2])]

\* C30: the tokens of stage 2 are the lower-cased maximal runs of [a-z0-9] of
\* length >= 3 in message order, and the candidate phrases are every token
\* plus every pair of consecutive surviving tokens joined by one space, a
\* dropped short word between them notwithstanding; a message without a
\* surviving token gets no intent result.
C30_Tokenization ==
    Routed =>
        LET words == Tokenize(RoutedMessage)
            phrases == Phrases(words)
        IN  /\ words = ReferenceTokens(RoutedMessage)
            /\ Range(phrases)
                 = Range(words)
                     \cup {words[i] \o <<" ">> \o words[i + 1] :
                              i \in 1..(Len(words) - 1)}
            /\ Len(phrases) = Len(words) + Max({Len(words) - 1, 0})
            /\ words = <<>> => RoutedMethod # "intent"

C30_Witness ==
    /\ Routed
    /\ RoutedMessage = Chars("aaa b bbb")
    /\ Tokenize(RoutedMessage) = <<Chars("aaa"), Chars("bbb")>>
    /\ Chars("aaa bbb") \in Range(Phrases(Tokenize(RoutedMessage)))

\* The score of persona id over the set of the candidate phrases: each
\* distinct phrase of the message adds the weights registered for it once.
SetScore(map, phrases, id) ==
    SumWeights({e \in map.entries :
                   /\ e.persona_id = id
                   /\ \E i \in DOMAIN phrases : phrases[i] = Chars(e.key)})

\* C31: stage 2 scores over a set of candidate phrases: a phrase that occurs
\* several times in the message adds its registered weight to a persona's
\* score once, so the top score is the top of the scores over the set.
C31_PhraseSetScoring ==
    (Routed /\ RoutedRanking.size > 0) =>
        LET map == getKeywordMap
            phrases == Phrases(Tokenize(RoutedMessage))
        IN  RoutedRanking.topScore
                = Max({SetScore(map, phrases, id) : id \in Scored(map, phrases)})

\* C32: the keyword map is built from getAllKeywords() by the first route()
\* that reaches stage 2 and is reused as it is, also when it is empty and
\* whatever the keywords have become, until invalidateCache() drops it; the
\* next stage-2 evaluation then rebuilds it from the keywords as they are.
C32_KeywordMapLifecycle ==
    [][/\ last'.op = "route" =>
            IF detectMention(last'.message) # Null
            THEN keywordCache' = keywordCache
            ELSE /\ keywordCache'.built
                 /\ keywordCache.built => keywordCache' = keywordCache
                 /\ ~keywordCache.built
                    => keywordCache'.entries = BuildKeywordMap(keywords)
       /\ last'.op = "invalidateCache" => ~keywordCache'.built
       /\ last'.op \notin {"route", "invalidateCache"}
          => keywordCache' = keywordCache]_vars

\* A route() has just evaluated stage 2 on the empty map an earlier route()
\* built, although keywords are registered now.
C32_Witness ==
    /\ Routed
    /\ detectMention(RoutedMessage) = Null
    /\ keywordCache.built
    /\ keywordCache.entries = {}
    /\ keywords # {}

\* C33: generatePersonas is repeatable: a call returns what the call before
\* it returned for the same answers, which is what a call on the untouched
\* catalog returns (context sections do not accumulate), and no call changes
\* the catalog or what getDefaultTemplates() returns.
C33_GenerateRepeatable ==
    [][last'.op = "generatePersonas" =>
          /\ CatalogIntact'
          /\ CopiedTemplates(heap') = PERSONA_TEMPLATES
          /\ last'.result
               = TemplatesOf(generatePersonas(CatalogHeap, last'.answers))
          /\ last.op = "generatePersonas" => last'.result = last.result]_vars

C33_Witness ==
    /\ last.op = "generatePersonas"
    /\ last.calls = 2
    /\ Len(last.result) = 2
    /\ Sections(last.result[2].identity, "## Startup Context") = 1
    /\ CatalogIntact

\* The lower-cased slugs of the active personas.
ActiveSlugs ==
    {ToLowerCase(Chars(personas[id].slug)) :
        id \in {x \in PersonaIds : personas[x] # Null /\ personas[x].is_active}}

\* The positions of the "@" that start the message or follow whitespace and
\* are followed by a word character.
MentionStarts(m) ==
    {a \in 1..(Len(m) - 1) :
        /\ m[a] = "@"
        /\ IsWordChar(m[a + 1])
        /\ a = 1 \/ IsSpace(m[a - 1])}

\* The lower-cased run of word characters after the "@" at position a.
TokenAt(m, a) ==
    LET e == CHOOSE x \in (a + 1)..Len(m) :
                 /\ \A j \in (a + 1)..x : IsWordChar(m[j])
                 /\ x = Len(m) \/ ~IsWordChar(m[x + 1])
    IN  ToLowerCase(SubSeq(m, a + 1, e))

\* C34: only the first @token of a message counts: when it names no active
\* persona, stage 1 yields nothing, also when a later @token of the message
\* names an active persona.
C34_FirstMentionOnly ==
    (/\ Routed
     /\ MentionStarts(RoutedMessage) # {}
     /\ TokenAt(RoutedMessage, Min(MentionStarts(RoutedMessage)))
            \notin ActiveSlugs)
        => /\ RoutedMethod # "mention"
           /\ detectMention(RoutedMessage) = Null

C34_Witness ==
    /\ Routed
    /\ Cardinality(MentionStarts(RoutedMessage)) = 2
    /\ TokenAt(RoutedMessage, Min(MentionStarts(RoutedMessage)))
           \notin ActiveSlugs
    /\ TokenAt(RoutedMessage, Max(MentionStarts(RoutedMessage)))
           \in ActiveSlugs
    /\ RoutedMethod = "default"

\* No "@" of the message starts it or follows whitespace.
NoLeadingAt(m) ==
    \A i \in DOMAIN m : m[i] = "@" => (i > 1 /\ ~IsSpace(m[i - 1]))

\* C38: an "@" preceded by a non-whitespace character is never a mention,
\* also when the text after it is the slug of an active persona: the
\* message is routed by stage 2 or stage 3.
C38_EmbeddedAt ==
    (Routed /\ NoLeadingAt(RoutedMessage)) =>
        /\ detectMention(RoutedMessage) = Null
        /\ RoutedMethod \in {"intent", "default", "error"}
        /\ ~IsError(last.result) => "strippedMessage" \notin DOMAIN last.result

C38_Witness ==
    /\ Routed
    /\ NoLeadingAt(RoutedMessage)
    /\ \E i \in 2..(Len(RoutedMessage) - 1) :
           /\ RoutedMessage[i] = "@"
           /\ IsWordChar(RoutedMessage[i + 1])
           /\ TokenAt(RoutedMessage, i) \in ActiveSlugs
    /\ RoutedMethod = "intent"

\* ---------------------------------------------------------------------
\* The catalog's keywords against the tokenizer: a keyword as seeded, then
\* the candidate phrases of the message that spells it.

CatalogKeywords ==
    UNION {Range(PERSONA_TEMPLATES[i].keywords) : i \in DOMAIN PERSONA_TEMPLATES}

InitKeywords ==
    /\ initialized = TRUE
    /\ personas = EmptyTable
    /\ keywords = {}
    /\ cache = ColdCache
    /\ keywordCache = ColdKeywordCache
    /\ seeded = FALSE
    /\ deleted = {}
    /\ heap = CatalogHeap
    /\ held = <<>>
    /\ last \in {[op |-> "keyword", keyword |-> k] : k \in CatalogKeywords}

\* classifyIntent's tokens and phrases for the message that is the keyword.
SpellKeyword ==
    /\ last.op = "keyword"
    /\ last' = [op |-> "phrases", keyword |-> last.keyword,
                key |-> LowerTable[last.keyword],
                phrases |-> Phrases(Tokenize(Chars(last.keyword)))]
    /\ UNCHANGED <<initialized, personas, keywords, cache, keywordCache,
                   seeded, deleted, heap, held>>

NextKeywords == SpellKeyword

SpecKeywords == InitKeywords /\ [][NextKeywords]_vars

\* C39: every keyword of the template catalog can be triggered: the
\* candidate phrases of a message contain the keyword lower-cased, the key
\* under which seeding registers it.  A candidate phrase is a token or two
\* tokens joined by one space, and the message that spells such a phrase
\* yields it, so a keyword that the message spelling it does not trigger is
\* triggered by no message.
C39_KeywordsMatchable ==
    last.op = "phrases" => Chars(last.key) \in Range(last.phrases)

\* ---------------------------------------------------------------------
\* Stage 2 against a keyword map that outlived its personas.

\* The keyword map the next route call reads differs from the one that
\* getAllKeywords() would give.
StaleKeywordMap ==
    keywordCache.built /\ keywordCache.entries # BuildKeywordMap(keywords)

\* The message reaches stage 2, passes its gates, and the persona that the
\* map ranks first is in the store no more.
TopScorerGone(m) ==
    /\ detectMention(m) = Null
    /\ LET r == IntentRanking(m, getKeywordMap)
       IN  GatesPass(r) /\ StoreGetPersonaById(personas, r.topId) = Null

\* C36: even with a stale keyword map, a route result with method intent
\* carries a persona that getPersonas() returns at the time of the call and
\* that the store holds; when the top scorer of the map exists no more, the
\* call falls through to the default persona (or to the error of a table
\* without default) instead of returning the deleted persona.
C36_IntentPersonaExists ==
    [][last'.op = "route" =>
          /\ ("method" \in DOMAIN last'.result /\ last'.result.method = "intent")
                => /\ last'.result.persona \in Range(ConfigGetPersonas)
                   /\ StoreGetPersonaById(personas, last'.result.persona.id)
                          = last'.result.persona
          /\ TopScorerGone(last'.message)
                => last'.result = IF ConfigGetDefault # Null
                                  THEN DefaultResult(ConfigGetDefault)
                                  ELSE NoDefaultError]_vars

\* A route call over a stale map whose top scorer was deleted, answered by
\* the default persona.
C36_Witness ==
    /\ last.op = "route"
    /\ StaleKeywordMap
    /\ TopScorerGone(last.message)
    /\ IntentRanking(last.message, keywordCache).topId \in deleted
    /\ "method" \in DOMAIN last.result
    /\ last.result.method = "default"

\* ---------------------------------------------------------------------
\* seedDefaults interrupted by a store write that raises

\* The store writes of the seeding loop.
SeedWrites == {"savePersona", "setRoutingKeywords"}

\* seedDefaults(answers) whose k-th template meets a store write that
\* raises: hasPersonas() has loaded the cache, the templates before the
\* k-th are persisted with their keywords, the k-th with its row only when
\* the write that raises is setRoutingKeywords, and the error leaves the
\* method before its invalidateCache().
SeedInterrupted ==
    /\ initialized
    /\ ~hasPersonas
    /\ \E answers \in AnswerInputs :
           LET call == IF answers = NoAnswers
                       THEN getDefaultTemplates(heap)
                       ELSE generatePersonas(heap, answers)
               templates == TemplatesOf(call)
           IN  \E k \in DOMAIN templates, write \in SeedWrites :
                   LET done == SubSeq(templates, 1, k - 1)
                       saved == IF write = "savePersona" THEN done
                                ELSE SubSeq(templates, 1, k)
                   IN  /\ write = "setRoutingKeywords"
                              => Len(templates[k].keywords) > 0
                       /\ heap' = Collect(call.heap)
                       /\ personas' = SeedPersonas(personas, saved)
                       /\ keywords' = SeedRouting(keywords, done)
                       /\ cache' = CacheAfterGetAll
                       /\ last' = [op |-> "seedDefaults", error |-> write,
                                   answers |-> answers, template |-> k]
    /\ UNCHANGED <<initialized, keywordCache, seeded, deleted, held>>

NextSeedFault ==
    \/ Initialize
    \/ SeedInterrupted
    \/ SeedDefaults
    \/ GetAll
    \/ GetById

SpecSeedFault == Init /\ [][NextSeedFault]_vars

\* The call before this step was a seedDefaults that a store write
\* interrupted.
AfterFailedSeed == last.op = "seedDefaults" /\ "error" \in DOMAIN last

\* C37: after a seedDefaults that a store write interrupted, the manager
\* does not serve the empty snapshot loaded for the hasPersonas check: the
\* next getAll(false) returns the personas the store holds, and the next
\* seedDefaults, when the store holds a persona, seeds nothing and changes
\* neither table.  (A next seedDefaults that is interrupted again is not
\* judged.)
C37_FailedSeedRecovers ==
    [][AfterFailedSeed =>
          /\ (last'.op = "getAll" /\ ~last'.activeOnly)
                => last'.result = StoreGetPersonas(personas, FALSE)
          /\ (/\ last'.op = "seedDefaults"
              /\ "error" \notin DOMAIN last'
              /\ StoreGetPersonas(personas, FALSE) # <<>>)
                => /\ ~last'.seeded
                   /\ UNCHANGED <<personas, keywords>>]_vars

\* ---------------------------------------------------------------------
\* The caching router under the contract of its cache

\* The holder of the router keeps the contract of the keyword cache: once
\* the routing keywords have changed under a built map, the holder's next
\* call is invalidateCache(), and only then anything else.
InvalidateDue == StaleKeywordMap /\ last.op # "invalidateCache"

NextCache ==
    \/ ~InvalidateDue /\ Initialize
    \/ ~InvalidateDue /\ Uninitialized
    \/ ~InvalidateDue /\ GetAll
    \/ ~InvalidateDue /\ GetById
    \/ ~InvalidateDue /\ GetBySlug
    \/ ~InvalidateDue /\ GetDefault
    \/ ~InvalidateDue /\ Create
    \/ ~InvalidateDue /\ Update
    \/ ~InvalidateDue /\ Delete
    \/ ~InvalidateDue /\ SetDefault
    \/ ~InvalidateDue /\ SeedDefaults
    \/ ~InvalidateDue /\ Route
    \/ InvalidateCache

SpecCache == Init /\ [][NextCache]_vars

\* route(message) of a router that keeps no map and builds one from
\* getAllKeywords() on every call.
routeFresh(m) ==
    LET map == [built |-> TRUE, entries |-> BuildKeywordMap(ConfigGetAllKeywords)]
        mentionResult == detectMention(m)
        intentResult == classifyIntent(m, map)
        defaultPersona == ConfigGetDefault
    IN  IF mentionResult # Null THEN mentionResult
        ELSE IF intentResult # Null THEN intentResult
        ELSE IF defaultPersona # Null THEN DefaultResult(defaultPersona)
        ELSE NoDefaultError

\* C35: cache transparency.  When invalidateCache() is called after every
\* change of the routing keywords, every route call of the caching router,
\* in every interleaving with the manager's operations, returns what a
\* router returns that builds its map from getAllKeywords() on each call.
C35_CacheTransparency ==
    [][last'.op = "route" => last'.result = routeFresh(last'.message)]_vars

\* A route call answered by intent from a map that was built after a seeded
\* persona and its keywords had been deleted.
C35_Witness ==
    /\ last.op = "route"
    /\ "method" \in DOMAIN last.result
    /\ last.result.method = "intent"
    /\ keywordCache.built
    /\ keywordCache.entries = BuildKeywordMap(keywords)
    /\ seeded
    /\ \E id \in deleted :
           /\ \E i \in DOMAIN PERSONA_TEMPLATES : PERSONA_TEMPLATES[i].id = id
           /\ \A e \in keywordCache.entries : e.persona_id # id

=============================================================================
